---- MODULE Spec2Model ----
(***************************************************************************)
(* Model of the chunk orchestrator of the dubbing pipeline,                *)
(* translate_by_segments in src/src/dubbing_app/core/translator.py:        *)
(* the probe of the chunk store, the submission of the pending chunks to a *)
(* ThreadPoolExecutor, the worker task translate_and_save, the collecting  *)
(* loop over as_completed, cancellation, and the final assembly.           *)
(*                                                                         *)
(* A text is the sequence of its lines (str.split("\n")), a line is a      *)
(* sequence of one-character strings; "\n".join of texts is then the       *)
(* concatenation of their line sequences.                                  *)
(***************************************************************************)
EXTENDS Naturals, Integers, Sequences, FiniteSets, TLC

\* ------------------------------------------------------------------ bounds
NumChunks == 3      \* chunks produced by split_segments_by_time for the job
MaxParallel == 2    \* max_parallel is drawn from 1..MaxParallel
MaxLines == 3       \* lines (segments) of one chunk are 1..MaxLines

Indices == 0 .. (NumChunks - 1)

\* ------------------------------------------------------------------ texts
EmptyText == << <<>> >>        \* the text "": one empty line

IsSpace(c) == c \in {" ", "\t", "\n", "\r"}

RECURSIVE LStrip(_)
LStrip(s) == IF s # <<>> /\ IsSpace(Head(s)) THEN LStrip(Tail(s)) ELSE s

RECURSIVE RStrip(_)
RStrip(s) ==
  IF s # <<>> /\ IsSpace(s[Len(s)]) THEN RStrip(SubSeq(s, 1, Len(s) - 1)) ELSE s

\* str.strip() of one line
Strip(s) == RStrip(LStrip(s))

\* a in b, for strings
Contains(a, b) ==
  \E k \in 0 .. (Len(b) - Len(a)) : SubSeq(b, k + 1, k + Len(a)) = a

\* "\n".join(texts), texts a function on 0..n-1 (or a sequence) of texts
RECURSIVE JoinFrom(_, _, _)
JoinFrom(texts, k, n) ==
  IF k >= n THEN <<>> ELSE texts[k] \o JoinFrom(texts, k + 1, n)

JoinResults(texts) == JoinFrom(texts, 0, NumChunks)

\* remove_duplicate_lines: the loop over the lines, from line k on, with the
\* code's locals result and prev
RECURSIVE RemoveDupLoop(_, _, _, _)
RemoveDupLoop(lines, k, result, prev) ==
  IF k > Len(lines) THEN result
  ELSE LET line == lines[k]
           stripped == Strip(line)
       IN  IF stripped = <<>>
             THEN RemoveDupLoop(lines, k + 1, Append(result, line), <<>>)
           ELSE IF stripped = prev
             THEN RemoveDupLoop(lines, k + 1, result, prev)
           ELSE IF prev # <<>> /\ Contains(prev, stripped)
             THEN RemoveDupLoop(lines, k + 1,
                                IF result # <<>>
                                  THEN [result EXCEPT ![Len(result)] = line]
                                  ELSE result,
                                stripped)
           ELSE IF prev # <<>> /\ Contains(stripped, prev)
             THEN RemoveDupLoop(lines, k + 1, result, prev)
           ELSE RemoveDupLoop(lines, k + 1, Append(result, line), stripped)

\* a repair that returns the text as it came
KeepAllLines(lines) == lines

\* a line with something else than whitespace in it
HasText(line) == Strip(line) # <<>>

\* a repair that first throws the blank lines away
WithoutBlankLines(lines) ==
  RemoveDupLoop(SelectSeq(lines, HasText), 1, <<>>, <<>>)

remove_duplicate_lines(text) == RemoveDupLoop(text, 1, <<>>, <<>>)

\* ------------------------------------------------------------------ inputs
LineA == <<"a">>
LineAB == <<"a", " ", "b">>

\* what the endpoint answers for a chunk, already stripped (translator.py:518)
Replies == { <<LineA>>, <<LineAB>> }

\* the source lines of chunk i when it has n segments: one line per segment
ChunkLines(i, n) == [j \in 1 .. n |-> <<i, j>>]

\* ------------------------------------------------------------------- state
VARIABLES
  max_parallel,     \* the max_parallel argument
  time_chunks,      \* time_chunks[i]: the source lines of chunk i
  reply,            \* reply[i]: the deterministic translator's answer for chunk i
  store,            \* store[i]: the file chunks_path/chunk_{i:03d}.txt
  pc,               \* position of the calling thread in translate_by_segments
  idx,              \* loop index of the loop the calling thread is in
  results,          \* the list results
  chunk_data,       \* the list chunk_data
  prev_chunk_tail,  \* the local prev_chunk_tail
  already_completed,
  completed,
  error_result,
  task,             \* task[i]: state of the future of chunk i and of its worker
  num_threads,      \* threads the executor has started
  idle_sem,         \* the executor's count of workers that went idle
  yielded,          \* futures as_completed has handed to the loop, in order
  progress,         \* the calls made to on_progress, in order
  final_text,       \* the local final_text after line 803
  ret,              \* the returned dict
  seen,             \* history: what the probe found for each index
  atDetect,         \* history: tasks and store when a failure was detected
  writes            \* history: writes[i] counts the write_text calls on chunk i

\* translate_text, and the pre-flight step of run_dubbing before it
VARIABLES
  tt_text,          \* the text argument of translate_text
  api_key,          \* the api_key argument
  base_url,         \* the base_url argument
  model,            \* the model argument
  max_retries,      \* the max_retries argument
  server,           \* the local inference server: is it up, and its models
  content,          \* the message content the endpoint answers with
  tt_pc,            \* position in run_dubbing's step 0 and in translate_text
  client_key,       \* the local api_key after lines 462-475
  attempt,          \* the loop variable of line 479
  last_error,       \* the local last_error: str(e) of the last exception
  tt_ret,           \* the dict translate_text returned
  calls,            \* history: client.chat.completions.create calls made
  preflights,       \* history: check_ollama_status calls made by translate_text
  raised,           \* history: str(e) of each exception the calls raised
  step0             \* history: how step 0 of run_dubbing ended, if it ran

ts_vars == << max_parallel, time_chunks, reply, store, pc, idx, results,
              chunk_data, prev_chunk_tail, already_completed, completed,
              error_result, task, num_threads, idle_sem, yielded, progress,
              final_text, ret, seen, atDetect, writes >>

tt_vars == << tt_text, api_key, base_url, model, max_retries, server, content,
              tt_pc, client_key, attempt, last_error, tt_ret, calls,
              preflights, raised, step0 >>

\* split_segments_by_time
VARIABLES
  segments,         \* the segments argument
  chunk_duration,   \* the chunk_duration argument, in seconds
  max_chars,        \* the max_chars argument (soft limit)
  hard_limit,       \* the hard_limit argument
  ck_pc,            \* position in split_segments_by_time
  seg_idx,          \* position of the for loop of line 386 in segments
  chunks,           \* the list chunks
  current_chunk,    \* the list current_chunk
  chunk_start_time, \* the local chunk_start_time, in milliseconds
  current_chars,    \* the local current_chars
  ck_last           \* history: the last pass of the loop: the chunk and the
                    \* segment it met, and whether it started a new chunk

ck_vars == << segments, chunk_duration, max_chars, hard_limit, ck_pc, seg_idx,
              chunks, current_chunk, chunk_start_time, current_chars,
              ck_last >>

\* preprocess_segments
VARIABLES
  pp_segments,      \* the segments argument of the first call
  pp_pc,            \* how many times preprocess_segments has been applied
  once,             \* what preprocess_segments returned for pp_segments
  twice             \* what preprocess_segments returned for once

pp_vars == << pp_segments, pp_pc, once, twice >>

\* remove_duplicate_lines
VARIABLES
  rdl_text,         \* the text argument, as its lines
  rdl_pc,           \* has remove_duplicate_lines returned
  rdl_out           \* the lines of the text it returned

rdl_vars == << rdl_text, rdl_pc, rdl_out >>

\* the first pass of preprocess_segments, one segment at a time
VARIABLES
  dd_segments,      \* the segments argument
  dd_pc,            \* where the pass is: "idle", "loop" or "done"
  dd_k,             \* the index of the segment the loop takes next
  dd_cleaned,       \* the list cleaned
  dd_prev_text,     \* the local prev_text
  dd_last           \* the last pass of the loop: the segment's text as it
                    \* came and stripped, which of the two rules changed the
                    \* text, whether the segment was kept; NoDict before

dd_vars == << dd_segments, dd_pc, dd_k, dd_cleaned, dd_prev_text, dd_last >>

\* run_dubbing and the output folder of one video
VARIABLES
  fs,               \* the folder of the video under output_dir: is it there,
                    \* its files transcript_original.txt, transcript_korean.txt
                    \* and <title>.mp3 ("absent", "partial" or "full"), the
                    \* indices of the <title>.mp3.partN.mp3 files, is
                    \* segments.json there, the chunk store ("absent", "some"
                    \* or "all" of its artifacts)
  rd_pc,            \* where run_dubbing is
  job,              \* the DubbingJob: status and error (which call failed)
  existing,         \* what check_existing_output returned, NoDict for None
  resume_from,      \* the local resume_from
  rd_segments,      \* is the local segments a non-empty list
  rd_pieces,        \* how many pieces generate_tts cuts the translation into
                    \* (0: the text is blank)
  rd_i,             \* the loop index of generate_tts
  rd_calls,         \* the stages this run has called
  rd_probes,        \* one record per probe so far: the flags, the stage, and
                    \* how the run before it ended
  rd_prev,          \* how the run before this one ended, NoDict in the first
  rd_before         \* fs when this run began

rd_vars == << fs, rd_pc, job, existing, resume_from, rd_segments, rd_pieces,
              rd_i, rd_calls, rd_probes, rd_prev, rd_before >>

vars == << ts_vars, tt_vars, ck_vars, pp_vars, rdl_vars, dd_vars, rd_vars >>

\* what the actions of one part leave alone outside it
otherParts == << tt_vars, ck_vars, pp_vars, rdl_vars, dd_vars, rd_vars >>
notTT == << ts_vars, ck_vars, pp_vars, rdl_vars, dd_vars, rd_vars >>
notCK == << ts_vars, tt_vars, pp_vars, rdl_vars, dd_vars, rd_vars >>
notPP == << ts_vars, tt_vars, ck_vars, rdl_vars, dd_vars, rd_vars >>
notRDL == << ts_vars, tt_vars, ck_vars, pp_vars, dd_vars, rd_vars >>
notDD == << ts_vars, tt_vars, ck_vars, pp_vars, rdl_vars, rd_vars >>
notRD == << ts_vars, tt_vars, ck_vars, pp_vars, rdl_vars, dd_vars >>

inputs == << max_parallel, time_chunks, reply >>

NoText == <<>>                    \* None in a slot of results
NoDict == [k \in {} |-> TRUE]     \* None where a dict is expected

Absent == [st |-> "absent", text |-> EmptyText]
Unprobed == [st |-> "unprobed", text |-> EmptyText]

\* states of a future and of the worker running it
Unsubmitted == "none"
InWorker == {"running", "writing"}

\* ------------------------------------------------------------ chunk store
\* a probe that never finds an artifact
ArtifactNeverFound(i) == FALSE

\* chunk_file.exists()
ArtifactExists(i) == store[i].st # "absent"

\* chunk_file.read_text(encoding="utf-8")
ReadArtifact(i) == store[i].text

\* open(chunk_file, "w") inside Path.write_text: the file is created, or
\* truncated, before any data is written
OpenedForWrite(i) == [st |-> "partial", text |-> EmptyText]

\* the file once write_text has written the data and closed it
Written(i, text) == [st |-> "complete", text |-> text]

\* -------------------------------------------------------------- the probe
\* "\n".join(lines[-2:]) if len(lines) >= 2 else chunk_text
ContextTail(lines) ==
  IF Len(lines) >= 2 THEN SubSeq(lines, Len(lines) - 1, Len(lines)) ELSE lines

\* a skip branch that leaves prev_chunk_tail as it was
TailAfterSkipStale(prev, lines) == prev

\* prev_chunk_tail after an already completed chunk (lines 716-717)
TailAfterSkip(prev, lines) == ContextTail(lines)

\* prev_chunk_tail after a chunk appended to chunk_data (lines 728-729)
TailAfterAppend(prev, lines) == ContextTail(lines)

\* the entry appended to chunk_data (lines 720-725)
ChunkEntry(i, prev) == [index |-> i, prev_context |-> prev]

\* results filled in completion order: the first free slot takes the text
StoreResultNextFree(res, i, text) ==
  [res EXCEPT ![CHOOSE k \in Indices :
                   res[k] = NoText /\ \A m \in Indices : m < k => res[m] # NoText]
                = text]

\* what results[i] holds after collecting a successful future (line 787)
StoreResult(res, i, text) == [res EXCEPT ![i] = text]

\* ----------------------------------------------- translate_text: the data
MaxRetries == 2     \* max_retries is drawn from 0..MaxRetries

\* the substring that marks the local-server family (lines 461, 74)
OllamaHostPort ==
  << "l", "o", "c", "a", "l", "h", "o", "s", "t", ":", "1", "1", "4", "3",
  "4" >>

\* the base_url values of the calls
UrlOllama ==
  << "h", "t", "t", "p", ":", "/", "/", "l", "o", "c", "a", "l", "h", "o",
  "s", "t", ":", "1", "1", "4", "3", "4", "/", "v", "1" >>
UrlLoopback ==
  << "h", "t", "t", "p", ":", "/", "/", "1", "2", "7", ".", "0", ".", "0",
  ".", "1", ":", "1", "1", "4", "3", "4", "/", "v", "1" >>
UrlOtherPort ==
  << "h", "t", "t", "p", ":", "/", "/", "l", "o", "c", "a", "l", "h", "o",
  "s", "t", ":", "8", "0", "8", "0", "/", "v", "1" >>
UrlRemote ==
  << "h", "t", "t", "p", "s", ":", "/", "/", "a", "p", "i", ".", "z", ".",
  "a", "i", "/", "a", "p", "i", "/", "c", "o", "d", "i", "n", "g", "/", "p",
  "a", "a", "s", "/", "v", "4" >>

BaseUrls == {UrlOllama, UrlLoopback, UrlOtherPort, UrlRemote}

\* the api_key values: none, or a key
ApiKeys == {"", "sk-key"}

\* the texts handed to translate_text
Texts == { <<>>, << " ", "\n" >>, << "\t" >>, << "h", "i" >>,
           << " ", "h", "i", "\n" >> }

\* the message contents the endpoint answers with
Contents == { << "x" >>, << " ", "x", "\n" >> }

\* model names: name, ":", tag
ModelG1 == << "g", ":", "1" >>
ModelG2 == << "g", ":", "2" >>
ModelH1 == << "h", ":", "1" >>

\* the local server: down, or up with some models pulled
Servers ==
  {[up |-> FALSE, models |-> {}]} \cup
  {[up |-> TRUE, models |-> m] : m \in SUBSET {ModelG1, ModelH1}}

\* str(e) of the exceptions client.chat.completions.create raises: the
\* client library's timeout and connection errors, and two errors with a
\* status code
MsgTimedOut ==
  << "R", "e", "q", "u", "e", "s", "t", " ", "t", "i", "m", "e", "d", " ",
  "o", "u", "t", "." >>
MsgConnection ==
  << "C", "o", "n", "n", "e", "c", "t", "i", "o", "n", " ", "e", "r", "r",
  "o", "r", "." >>
MsgGatewayTimeout ==
  << "E", "r", "r", "o", "r", " ", "c", "o", "d", "e", ":", " ", "5", "0",
  "4", " ", "-", " ", "G", "a", "t", "e", "w", "a", "y", " ", "T", "i", "m",
  "e", "o", "u", "t" >>
MsgUnauthorized ==
  << "E", "r", "r", "o", "r", " ", "c", "o", "d", "e", ":", " ", "4", "0",
  "1" >>

ErrorMessages == {MsgTimedOut, MsgConnection, MsgGatewayTimeout, MsgUnauthorized}

\* the error of lines 471-475
MissingKeyError == "API key is not set"

\* status.get("error", ...) of a server that is not available (lines 464-468)
ServerError == "server not available"

\* the parts of translate_text at rest
TTIdle ==
  /\ tt_text = <<>>
  /\ api_key = ""
  /\ base_url = UrlRemote
  /\ model = ModelG1
  /\ max_retries = 0
  /\ server = [up |-> FALSE, models |-> {}]
  /\ content = << "x" >>
  /\ tt_pc = "idle"
  /\ client_key = ""
  /\ attempt = 0
  /\ last_error = NoText
  /\ tt_ret = NoDict
  /\ calls = 0
  /\ preflights = 0
  /\ raised = <<>>
  /\ step0 = "none"

\* --------------------------------------- split_segments_by_time: the data
MaxSegs == 3        \* the segment lists have at most MaxSegs segments

\* the start fields "HH:MM:SS.mmm" of the segments, and one that is no time
Time0 ==
  << "0", "0", ":", "0", "0", ":", "0", "0", ".", "0", "0", "0" >>
Time1s ==
  << "0", "0", ":", "0", "0", ":", "0", "1", ".", "0", "0", "0" >>
Time1m ==
  << "0", "0", ":", "0", "1", ":", "0", "0", ".", "0", "0", "0" >>
TimeBad ==
  << "1", ":", "0", "0" >>
Time4s002 ==
  << "0", "0", ":", "0", "0", ":", "0", "4", ".", "0", "0", "2" >>
Time64s002 ==
  << "0", "0", ":", "0", "1", ":", "0", "4", ".", "0", "0", "2" >>

TimeStrings == {Time0, Time1s, Time1m, TimeBad, Time4s002, Time64s002}

\* the text fields of the segments
SegTexts == { <<>>, << "a" >>, << "b", "." >>, << "c", "d", "e" >>,
              << "f", "g", "h", "i", "." >> }

Segment(t, x) == [start |-> t, text |-> x]

Segments == {Segment(t, x) : t \in TimeStrings, x \in SegTexts}

\* lists of at most n elements of the set
RECURSIVE ListsUpTo(_, _)
ListsUpTo(set, n) ==
  IF n = 0 THEN { <<>> }
  ELSE LET shorter == ListsUpTo(set, n - 1)
       IN  shorter \cup {Append(l, e) : l \in {x \in shorter : Len(x) = n - 1},
                                        e \in set}

\* the values of chunk_duration, max_chars and hard_limit
Durations == {1, 60}
SoftLimits == {1, 3}
HardLimits == {2, 4}

\* split_segments_by_time at rest
CKIdle ==
  /\ segments = <<>>
  /\ chunk_duration = 60
  /\ max_chars = 3
  /\ hard_limit = 4
  /\ ck_pc = "idle"
  /\ seg_idx = 1
  /\ chunks = <<>>
  /\ current_chunk = <<>>
  /\ chunk_start_time = 0
  /\ current_chars = 0
  /\ ck_last = NoDict

\* ------------------------------------------- preprocess_segments: the data
MaxSubs == 3        \* the subtitle lists have at most MaxSubs segments
MergeMaxLen == 200  \* a buffer longer than this is flushed (line 172)

\* the texts of the subtitle segments
Hello ==
  << "H", "e", "l", "l", "o" >>
HelloWorld ==
  << "H", "e", "l", "l", "o", " ", "w", "o", "r", "l", "d" >>
WorldBye ==
  << "w", "o", "r", "l", "d", ".", " ", "B", "y", "e", "." >>
SentA ==
  << "a", "." >>
SentAB ==
  << "a", ".", " ", "b", "." >>
SentBC ==
  << "b", ".", " ", "c", "." >>
Padded ==
  << " ", "b", " " >>

\* a text of MergeMaxLen + 1 characters that ends no sentence
LongText == [k \in 1 .. (MergeMaxLen + 1) |-> "x"]

SubTexts == {<<>>, Hello, HelloWorld, WorldBye, SentA, SentAB, SentBC, Padded,
             LongText}

\* the k-th segment of a list: it starts at time k and ends at time k + 1
Sub(k, x) == [start |-> k, end |-> k + 1, text |-> x]

SubLists ==
  {[k \in 1 .. Len(l) |-> Sub(k, l[k])] : l \in ListsUpTo(SubTexts, MaxSubs)}

\* preprocess_segments at rest
PPIdle ==
  /\ pp_segments = <<>>
  /\ pp_pc = "idle"
  /\ once = <<>>
  /\ twice = <<>>

\* ---------------------------------------- remove_duplicate_lines: the data
MaxDupLines == 4    \* the texts have at most MaxDupLines lines

\* the lines of the texts
CatSat ==
  << "T", "h", "e", " ", "c", "a", "t", " ", "s", "a", "t", "." >>
CatMat ==
  << "T", "h", "e", " ", "c", "a", "t", " ", "s", "a", "t", " ", "o", "n",
  " ", "t", "h", "e", " ", "m", "a", "t", "." >>

DupLines == {<<>>, << " " >>, LineA, LineAB, << " ", "a" >>, CatSat, CatMat}

\* text.split("\n") has at least one line
DupTexts == {l \in ListsUpTo(DupLines, MaxDupLines) : l # <<>>}

\* remove_duplicate_lines at rest
RDLIdle ==
  /\ rdl_text = EmptyText
  /\ rdl_pc = "idle"
  /\ rdl_out = EmptyText

\* ------------------------------- the first pass of preprocess_segments: data
\* the texts of the segments of the pass
OneA ==
  << "a" >>
OneB ==
  << "b" >>
TwiceA ==
  << "a", " ", "a" >>
AThenB ==
  << "a", " ", "b" >>
ABA ==
  << "a", " ", "b", " ", "a" >>
TwiceAThenB ==
  << "a", " ", "a", " ", "b" >>

DedupTexts == {<<>>, OneA, OneB, TwiceA, AThenB, ABA, TwiceAThenB, Padded}

DedupLists ==
  {[k \in 1 .. Len(l) |-> Sub(k, l[k])] : l \in ListsUpTo(DedupTexts, MaxSubs)}

\* the first pass at rest
DDIdle ==
  /\ dd_segments = <<>>
  /\ dd_pc = "idle"
  /\ dd_k = 1
  /\ dd_cleaned = <<>>
  /\ dd_prev_text = <<>>
  /\ dd_last = NoDict

\* -------------------------------------------------- run_dubbing: the data
MaxRuns == 4        \* run_dubbing is called at most MaxRuns times for the video
MaxPieces == 2      \* generate_tts cuts the translation into at most MaxPieces

\* the folder of a video that was never processed
NoFolder ==
  [folder |-> FALSE, original |-> "absent", korean |-> "absent",
   audio |-> "absent", parts |-> {}, segments |-> FALSE, chunks |-> "absent"]

\* job = DubbingJob(..., status="running") (lines 58-63)
NewJob == [status |-> "running", error |-> "none"]

\* run_dubbing at rest
RDIdle ==
  /\ fs = NoFolder
  /\ rd_pc = "idle"
  /\ job = NewJob
  /\ existing = NoDict
  /\ resume_from = "start"
  /\ rd_segments = FALSE
  /\ rd_pieces = 1
  /\ rd_i = 0
  /\ rd_calls = {}
  /\ rd_probes = <<>>
  /\ rd_prev = NoDict
  /\ rd_before = NoFolder

\* the parts added to the four first ones, at rest
MoreIdle ==
  /\ RDLIdle
  /\ DDIdle
  /\ RDIdle

\* the locals of translate_by_segments and the chunk store before a run
TSStart ==
  /\ store = [i \in Indices |-> Absent]
  /\ pc = "probe"
  /\ idx = 0
  /\ results = [i \in Indices |-> NoText]
  /\ chunk_data = <<>>
  /\ prev_chunk_tail = EmptyText
  /\ already_completed = 0
  /\ completed = 0
  /\ error_result = NoDict
  /\ task = [i \in Indices |-> Unsubmitted]
  /\ num_threads = 0
  /\ idle_sem = 0
  /\ yielded = <<>>
  /\ progress = <<>>
  /\ final_text = NoText
  /\ ret = NoDict
  /\ seen = [i \in Indices |-> Unprobed]
  /\ atDetect = NoDict
  /\ writes = [i \in Indices |-> 0]

\* The deterministic translator answers chunk i with reply[i]. The sizes of
\* the chunks and the answers do not act on each other, so the inputs are the
\* jobs in which the chunk sizes vary and the jobs in which the answers vary.
Init ==
  /\ max_parallel \in 1 .. MaxParallel
  /\ \E sizes \in [Indices -> 1 .. MaxLines] :
       time_chunks = [i \in Indices |-> ChunkLines(i, sizes[i])]
  /\ reply \in [Indices -> Replies]
  /\ \/ \A i \in Indices : Len(time_chunks[i]) = MaxLines
     \/ \A i \in Indices : reply[i] = <<LineA>>
  /\ TSStart
  /\ TTIdle
  /\ CKIdle
  /\ PPIdle
  /\ MoreIdle

total == NumChunks                \* total = len(time_chunks)

\* indices of the futures dict: the chunks of chunk_data
Futures == {chunk_data[k].index : k \in 1 .. Len(chunk_data)}

Busy == Cardinality({i \in Indices : task[i] \in InWorker})

\* translation calls in flight: translate_text called and not yet returned
InFlight == {i \in Indices : task[i] = "running"}

\* chunks handed to the translation client so far in this run
Called == {i \in Indices : task[i] \in InWorker \cup {"finished", "failed", "raised"}}

\* one iteration of the loop of lines 704-729
Probe ==
  /\ pc = "probe"
  /\ LET i == idx
         lines == time_chunks[i]
     IN  /\ IF ArtifactExists(i)
              THEN /\ results' = [results EXCEPT ![i] = ReadArtifact(i)]
                   /\ already_completed' = already_completed + 1
                   /\ prev_chunk_tail' = TailAfterSkip(prev_chunk_tail, lines)
                   /\ UNCHANGED chunk_data
              ELSE /\ chunk_data' = Append(chunk_data, ChunkEntry(i, prev_chunk_tail))
                   /\ prev_chunk_tail' = TailAfterAppend(prev_chunk_tail, lines)
                   /\ UNCHANGED << results, already_completed >>
         /\ seen' = [seen EXCEPT ![i] = store[i]]
  /\ idx' = idx + 1
  /\ pc' = IF idx + 1 = total THEN "probed" ELSE "probe"
  /\ UNCHANGED otherParts
  /\ UNCHANGED << inputs, store, completed, error_result, task, num_threads,
                  idle_sem, yielded, progress, final_text, ret, atDetect, writes >>

\* lines 732-739: every chunk already has its artifact
AllDone ==
  /\ pc = "probed"
  /\ chunk_data = <<>>
  /\ progress' = Append(progress, <<total, total>>)
  /\ ret' = [success |-> TRUE, translated |-> JoinResults(results)]
  /\ pc' = "done"
  /\ UNCHANGED otherParts
  /\ UNCHANGED << inputs, store, idx, results, chunk_data, prev_chunk_tail,
                  already_completed, completed, error_result, task, num_threads,
                  idle_sem, yielded, final_text, seen, atDetect, writes >>

\* a counter left at its initial zero, without the chunks found by the probe
InitialCompletedZero == completed

\* completed = already_completed (line 745)
InitialCompleted == already_completed

\* lines 745-767: the locals of the parallel part, and the executor
StartPool ==
  /\ pc = "probed"
  /\ chunk_data # <<>>
  /\ completed' = InitialCompleted
  /\ error_result' = NoDict
  /\ pc' = "submit"
  /\ idx' = 1
  /\ UNCHANGED otherParts
  /\ UNCHANGED << inputs, store, results, chunk_data, prev_chunk_tail,
                  already_completed, task, num_threads, idle_sem, yielded,
                  progress, final_text, ret, seen, atDetect, writes >>

\* a pool with one worker per submitted chunk
PoolSizeUnbounded == Len(chunk_data)

\* ThreadPoolExecutor(max_workers=max_parallel)
PoolSize == max_parallel

\* executor.submit (lines 769-771): the work item is queued, and a thread is
\* started unless a worker is idle or max_workers threads exist
Submit ==
  /\ pc = "submit"
  /\ task' = [task EXCEPT ![chunk_data[idx].index] = "pending"]
  /\ IF idle_sem > 0
       THEN idle_sem' = idle_sem - 1 /\ UNCHANGED num_threads
       ELSE /\ num_threads' = IF num_threads < PoolSize THEN num_threads + 1
                                                        ELSE num_threads
            /\ UNCHANGED idle_sem
  /\ idx' = idx + 1
  /\ pc' = IF idx = Len(chunk_data) THEN "collect" ELSE "submit"
  /\ UNCHANGED otherParts
  /\ UNCHANGED << inputs, store, results, chunk_data, prev_chunk_tail,
                  already_completed, completed, error_result, yielded, progress,
                  final_text, ret, seen, atDetect, writes >>

\* a worker takes the work item of chunk i off the queue and the future goes
\* to RUNNING: the queue is FIFO, so every earlier item still pending is in
\* the hands of another free worker
Start(i) ==
  /\ task[i] = "pending"
  /\ Cardinality({j \in Indices : j < i /\ task[j] = "pending"}) + 1
       <= num_threads - Busy
  /\ task' = [task EXCEPT ![i] = "running"]
  /\ UNCHANGED otherParts
  /\ UNCHANGED << inputs, store, pc, idx, results, chunk_data, prev_chunk_tail,
                  already_completed, completed, error_result, num_threads,
                  idle_sem, yielded, progress, final_text, ret, seen, atDetect, writes >>

\* translate_text returns {"success": True, "translated": reply} and
\* chunk_file.write_text opens the file (lines 750, 761-763)
CallSucceeds(i) ==
  /\ task[i] = "running"
  /\ task' = [task EXCEPT ![i] = "writing"]
  /\ store' = [store EXCEPT ![i] = OpenedForWrite(i)]
  /\ writes' = [writes EXCEPT ![i] = writes[i] + 1]
  /\ UNCHANGED otherParts
  /\ UNCHANGED << inputs, pc, idx, results, chunk_data, prev_chunk_tail,
                  already_completed, completed, error_result, num_threads,
                  idle_sem, yielded, progress, final_text, ret, seen, atDetect >>

\* translate_text returns {"success": False, ...}: nothing is saved and the
\* future finishes with that result (lines 750, 761, 765)
CallFails(i) ==
  /\ task[i] = "running"
  /\ task' = [task EXCEPT ![i] = "failed"]
  /\ idle_sem' = idle_sem + 1
  /\ UNCHANGED otherParts
  /\ UNCHANGED << inputs, store, pc, idx, results, chunk_data, prev_chunk_tail,
                  already_completed, completed, error_result, num_threads,
                  yielded, progress, final_text, ret, seen, atDetect, writes >>

\* write_text writes the data and closes the file; translate_and_save returns
\* and the future finishes with the result (lines 763-765)
FinishWrite(i) ==
  /\ task[i] = "writing"
  /\ task' = [task EXCEPT ![i] = "finished"]
  /\ store' = [store EXCEPT ![i] = Written(i, reply[i])]
  /\ idle_sem' = idle_sem + 1
  /\ UNCHANGED otherParts
  /\ UNCHANGED << inputs, pc, idx, results, chunk_data, prev_chunk_tail,
                  already_completed, completed, error_result, num_threads,
                  yielded, progress, final_text, ret, seen, atDetect, writes >>

\* a failed write retried by handing the chunk to the executor again
WriteRaisesResubmits(i) ==
  /\ task[i] = "writing"
  /\ task' = [task EXCEPT ![i] = "pending"]
  /\ idle_sem' = idle_sem + 1
  /\ UNCHANGED otherParts
  /\ UNCHANGED << inputs, store, pc, idx, results, chunk_data, prev_chunk_tail,
                  already_completed, completed, error_result, num_threads,
                  yielded, progress, final_text, ret, seen, atDetect, writes >>

\* write_text raises OSError after opening the file (disk full, I/O error):
\* the future finishes with the exception (line 763)
WriteRaises(i) ==
  /\ task[i] = "writing"
  /\ task' = [task EXCEPT ![i] = "raised"]
  /\ idle_sem' = idle_sem + 1
  /\ UNCHANGED otherParts
  /\ UNCHANGED << inputs, store, pc, idx, results, chunk_data, prev_chunk_tail,
                  already_completed, completed, error_result, num_threads,
                  yielded, progress, final_text, ret, seen, atDetect, writes >>

Yielded == {yielded[k] : k \in 1 .. Len(yielded)}

\* what the history keeps of the moment the failure of chunk i is detected
Snapshot(i) ==
  [index |-> i,
   started |-> Called,
   inflight |-> InFlight,
   store |-> store,
   results |-> results,
   completed |-> completed,
   progress |-> progress]

\* where the collecting loop goes once all futures have been handed out
PcAfterCollect(n) == IF n = Len(chunk_data) THEN "shutdown" ELSE "collect"

\* a failure branch without its break: the loop goes on collecting
PcAfterFailureNoBreak == "collect"

\* lines 783-785: cancel the other futures, then leave the loop
PcAfterFailure == "cancel"

\* lines 795-797: the loop is left at once
PcAfterException == "shutdown"

\* as_completed hands out the finished future of chunk i, whose result is a
\* success (lines 773-778, 787-793)
CollectSuccess(i) ==
  /\ pc = "collect"
  /\ i \in Futures \ Yielded
  /\ task[i] = "finished"
  /\ yielded' = Append(yielded, i)
  /\ results' = StoreResult(results, i, reply[i])
  /\ completed' = completed + 1
  /\ progress' = Append(progress, <<completed + 1, total>>)
  /\ pc' = PcAfterCollect(Len(yielded'))
  /\ UNCHANGED otherParts
  /\ UNCHANGED << inputs, store, idx, chunk_data, prev_chunk_tail,
                  already_completed, error_result, task, num_threads, idle_sem,
                  final_text, ret, seen, atDetect, writes >>

\* a loop that passes over a failure result and goes on
CollectFailureIgnored(i) ==
  /\ pc = "collect"
  /\ i \in Futures \ Yielded
  /\ task[i] = "failed"
  /\ yielded' = Append(yielded, i)
  /\ pc' = PcAfterCollect(Len(yielded'))
  /\ UNCHANGED otherParts
  /\ UNCHANGED << inputs, store, idx, results, chunk_data, prev_chunk_tail,
                  already_completed, completed, error_result, task, num_threads,
                  idle_sem, progress, final_text, ret, seen, atDetect, writes >>

\* the future handed out holds a failure result (lines 780-785)
CollectFailure(i) ==
  /\ pc = "collect"
  /\ i \in Futures \ Yielded
  /\ task[i] = "failed"
  /\ yielded' = Append(yielded, i)
  /\ error_result' = [success |-> FALSE, error |-> <<"translate", i>>]
  /\ atDetect' = Snapshot(i)
  /\ idx' = 1
  /\ pc' = PcAfterFailure
  /\ UNCHANGED otherParts
  /\ UNCHANGED << inputs, store, results, chunk_data, prev_chunk_tail,
                  already_completed, completed, task, num_threads, idle_sem,
                  progress, final_text, ret, seen, writes >>

\* future.result() raises what translate_and_save raised (lines 795-797)
CollectException(i) ==
  /\ pc = "collect"
  /\ i \in Futures \ Yielded
  /\ task[i] = "raised"
  /\ yielded' = Append(yielded, i)
  /\ error_result' = [success |-> FALSE, error |-> <<"exception", i>>]
  /\ atDetect' = Snapshot(i)
  /\ pc' = PcAfterException
  /\ UNCHANGED otherParts
  /\ UNCHANGED << inputs, store, idx, results, chunk_data, prev_chunk_tail,
                  already_completed, completed, task, num_threads, idle_sem,
                  progress, final_text, ret, seen, writes >>

\* one f.cancel() of the loop of lines 783-784: only a future still PENDING
\* is cancelled
Cancel ==
  /\ pc = "cancel"
  /\ LET j == chunk_data[idx].index
     IN  task' = [task EXCEPT ![j] = IF task[j] = "pending" THEN "cancelled"
                                                             ELSE task[j]]
  /\ idx' = idx + 1
  /\ pc' = IF idx = Len(chunk_data) THEN "shutdown" ELSE "cancel"
  /\ UNCHANGED otherParts
  /\ UNCHANGED << inputs, store, results, chunk_data, prev_chunk_tail,
                  already_completed, completed, error_result, num_threads,
                  idle_sem, yielded, progress, final_text, ret, seen, atDetect, writes >>

\* the text returned on success (lines 803-804)
FinalText(joined) == remove_duplicate_lines(joined)

\* a with block that is left without waiting for the workers
WithoutWaiting == TRUE

\* leaving the with block waits for the workers (executor.shutdown(wait=True)):
\* every queued item has been run or was cancelled
WorkersDone == \A i \in Indices : task[i] \notin InWorker \cup {"pending"}

\* the with block is left; then lines 799-810
Return ==
  /\ pc = "shutdown"
  /\ WorkersDone
  /\ IF error_result # NoDict
       THEN /\ ret' = error_result
            /\ UNCHANGED final_text
       ELSE /\ final_text' = JoinResults(results)
            /\ ret' = [success |-> TRUE, translated |-> FinalText(final_text')]
  /\ pc' = "done"
  /\ UNCHANGED otherParts
  /\ UNCHANGED << inputs, store, idx, results, chunk_data, prev_chunk_tail,
                  already_completed, completed, error_result, task, num_threads,
                  idle_sem, yielded, progress, seen, atDetect, writes >>

\* the process is killed during a run, or a run has returned a failure; the
\* next run of the job starts on the chunk store as it was left (run_dubbing
\* removes the store only after a successful translation)
Restart ==
  /\ IF pc = "done" THEN ~ret.success ELSE TRUE
  /\ pc' = "probe"
  /\ idx' = 0
  /\ results' = [i \in Indices |-> NoText]
  /\ chunk_data' = <<>>
  /\ prev_chunk_tail' = EmptyText
  /\ already_completed' = 0
  /\ completed' = 0
  /\ error_result' = NoDict
  /\ task' = [i \in Indices |-> Unsubmitted]
  /\ num_threads' = 0
  /\ idle_sem' = 0
  /\ yielded' = <<>>
  /\ progress' = <<>>
  /\ final_text' = NoText
  /\ ret' = NoDict
  /\ seen' = [i \in Indices |-> Unprobed]
  /\ atDetect' = NoDict
  /\ writes' = [i \in Indices |-> 0]
  /\ UNCHANGED otherParts
  /\ UNCHANGED << inputs, store >>

Next ==
  \/ Probe
  \/ AllDone
  \/ StartPool
  \/ Submit
  \/ \E i \in Indices : Start(i)
  \/ \E i \in Indices : CallSucceeds(i)
  \/ \E i \in Indices : CallFails(i)
  \/ \E i \in Indices : FinishWrite(i)
  \/ \E i \in Indices : WriteRaises(i)
  \/ \E i \in Indices : CollectSuccess(i)
  \/ \E i \in Indices : CollectFailure(i)
  \/ \E i \in Indices : CollectException(i)
  \/ Cancel
  \/ Return
  \/ Restart

Spec == Init /\ [][Next]_vars

\* a step of a run of translate_by_segments
RunStep ==
  \/ Probe
  \/ AllDone
  \/ StartPool
  \/ Submit
  \/ \E i \in Indices : Start(i)
  \/ \E i \in Indices : CallSucceeds(i)
  \/ \E i \in Indices : CallFails(i)
  \/ \E i \in Indices : FinishWrite(i)
  \/ \E i \in Indices : WriteRaises(i)
  \/ \E i \in Indices : CollectSuccess(i)
  \/ \E i \in Indices : CollectFailure(i)
  \/ \E i \in Indices : CollectException(i)
  \/ Cancel
  \/ Return

\* the job is run again after a run that returned a failure
Rerun ==
  /\ pc = "done"
  /\ Restart

NextFair ==
  \/ RunStep
  \/ Rerun

\* the jobs of Init whose chunks and answers are all alike: what a run does
\* next depends on which calls fail and on the order of the threads, not on
\* the texts
InitFair ==
  /\ Init
  /\ \A i \in Indices : Len(time_chunks[i]) = MaxLines
  /\ \A i \in Indices : reply[i] = <<LineA>>

\* No run is killed, and the threads of a run are scheduled: the main thread
\* and the workers take their steps, and every call of translate_text
\* returns or raises (the client has a timeout and max_retries is finite).
SpecFair == InitFair /\ [][NextFair]_vars /\ WF_vars(RunStep)

\* ------------------------------------------------------------------ claims
Returned == pc = "done"

ReturnedSuccess == IF pc = "done" THEN ret.success ELSE FALSE

\* the indices whose artifact the probe of this run found
FoundAtProbe == {i \in Indices : seen[i].st \notin {"unprobed", "absent"}}

\* what a run on an empty chunk store returns when every call succeeds
FreshRunText == FinalText(JoinResults(reply))

\* C1: a run on a chunk store holding the (completely written) artifacts of
\* any subset of the indices returns, on success, the text that a run on an
\* empty chunk store returns.
C1_ResumeEqualsFreshRun ==
  (ReturnedSuccess /\ \A i \in Indices : seen[i].st # "partial")
    => ret.translated = FreshRunText

\* C2: an index whose artifact exists at the probe is never handed to the
\* translation client and its artifact is never rewritten; only indices
\* without an artifact are translated; with every artifact present no call
\* is made and no worker is started.
C2_SkippedNeverTranslated ==
  /\ \A i \in FoundAtProbe : task[i] = "none" /\ store[i] = seen[i]
  /\ \A i \in Indices : task[i] # "none" => seen[i].st = "absent"
  /\ FoundAtProbe = Indices => (Called = {} /\ num_threads = 0)

\* C2 witness: a run has returned after skipping one chunk and translating
\* another.
C2_Witness ==
  /\ Returned
  /\ \E i, j \in Indices : i \in FoundAtProbe /\ task[j] = "finished"

\* C2 witness, second case: a run has returned with every artifact present.
C2_WitnessAllPresent == Returned /\ FoundAtProbe = Indices

\* C1 restricted to runs that translate at least one chunk: holds, the
\* resumed run returns the text of a fresh run.
C1_PartialResumeEqualsFreshRun ==
  (ReturnedSuccess /\ FoundAtProbe # Indices
     /\ \A i \in Indices : seen[i].st # "partial")
    => ret.translated = FreshRunText

\* C3: a chunk reported upward has its artifact written with the text of
\* its successful translation; a chunk whose call failed gets no artifact;
\* and, whenever no write is in progress, every artifact in the store holds
\* the text returned by a successful translation of its chunk.
C3_ArtifactsHoldTranslations ==
  /\ \A i \in Yielded : task[i] = "finished" => store[i] = Written(i, reply[i])
  /\ \A i \in Indices : task[i] = "failed" => store[i] = seen[i]
  /\ (\A i \in Indices : task[i] # "writing")
       => \A i \in Indices :
            store[i].st # "absent" => store[i] = Written(i, reply[i])

\* C3 without its last clause: holds, the order is success, then the
\* artifact, then the report, and a failed call writes nothing.
C3_WriteBeforeReport ==
  /\ \A i \in Yielded : task[i] = "finished" => store[i] = Written(i, reply[i])
  /\ \A i \in Indices : task[i] = "failed" => store[i] = seen[i]
  /\ \A i \in Indices : results[i] # NoText /\ i \notin FoundAtProbe => i \in Yielded

\* C4: once a failure has been detected, no chunk that had not been started
\* at that moment is started, and no artifact is written for such a chunk.
C4_NoStartAfterDetection ==
  atDetect # NoDict =>
    \A i \in Indices \ atDetect.started :
      /\ task[i] \in {"none", "pending", "cancelled"}
      /\ store[i] = atDetect.store[i]

\* C4 on the path where collecting raises (lines 795-797, no cancel loop):
\* violated, the queued chunks are all run while the executor shuts down.
C4_NoStartAfterException ==
  (atDetect # NoDict /\ task[atDetect.index] = "raised") =>
    \A i \in Indices \ atDetect.started :
      /\ task[i] \in {"none", "pending", "cancelled"}
      /\ store[i] = atDetect.store[i]

\* C4 on the failure-result path alone (lines 780-785): violated too, a
\* worker can take a queued chunk before the cancel loop reaches it.
C4_NoStartAfterFailureResult ==
  (atDetect # NoDict /\ task[atDetect.index] = "failed") =>
    \A i \in Indices \ atDetect.started :
      /\ task[i] \in {"none", "pending", "cancelled"}
      /\ store[i] = atDetect.store[i]

\* the error the first detected failure carries
FirstError ==
  << IF task[atDetect.index] = "failed" THEN "translate" ELSE "exception",
     atDetect.index >>

\* C5: when the translation of some chunk has failed (or its task raised),
\* the run returns a failure dict with exactly one error, that of the first
\* failure detected, and no translated text; a success is returned only with
\* every slot of results filled and no failed chunk.
C5_FailureReturnsOneError ==
  Returned =>
    /\ (\E i \in Indices : task[i] \in {"failed", "raised"})
         => /\ DOMAIN ret = {"success", "error"}
            /\ ~ret.success
            /\ atDetect # NoDict
            /\ ret.error = FirstError
    /\ ret.success
         => /\ DOMAIN ret = {"success", "translated"}
            /\ \A i \in Indices : results[i] # NoText
            /\ \A i \in Indices : task[i] \in {"none", "finished"}

\* C5 witness: a run has returned after the calls of two chunks failed.
C5_Witness ==
  Returned /\ Cardinality({i \in Indices : task[i] = "failed"}) >= 2

\* C6: after a failure was detected, nothing a call in flight at that moment
\* produces is used: not returned, not counted, not recorded in the store.
C6_InFlightResultsDiscarded ==
  atDetect # NoDict =>
    /\ results = atDetect.results
    /\ completed = atDetect.completed
    /\ progress = atDetect.progress
    /\ Returned => ret = error_result
    /\ \A i \in atDetect.inflight : store[i] = atDetect.store[i]

\* C6 as amended: after a failure was detected, what a call in flight at
\* that moment produces is neither returned nor counted in the progress (a
\* successful one still writes its artifact to the chunk store).
C6_InFlightResultsNotReturned ==
  atDetect # NoDict =>
    /\ results = atDetect.results
    /\ completed = atDetect.completed
    /\ progress = atDetect.progress
    /\ Returned => (ret = error_result /\ ~ret.success)

\* C6 witness: the run has returned its failure after a call that was in
\* flight when the failure was detected succeeded and wrote its artifact.
C6_Witness ==
  /\ Returned
  /\ atDetect # NoDict
  /\ \E i \in atDetect.inflight :
       /\ task[i] = "finished"
       /\ store[i] = Written(i, reply[i])
       /\ atDetect.store[i] # store[i]

\* C7: the probe observes, for each index, a completely written artifact or
\* none, and what it loads as a completed chunk is the text of a successful
\* translation.
C7_ProbeSeesWholeArtifacts ==
  \A i \in Indices :
    /\ seen[i].st # "partial"
    /\ i \in FoundAtProbe => results[i] = reply[i]

\* C8: the translation calls in flight never exceed max_parallel.
C8_InFlightBounded == Cardinality(InFlight) <= max_parallel

\* C8 witness: max_parallel calls are in flight while another chunk waits.
C8_Witness ==
  /\ max_parallel = MaxParallel
  /\ Cardinality(InFlight) = max_parallel
  /\ \E i \in Indices : task[i] = "pending"

\* the last two lines of a chunk, the whole chunk when it has fewer
LastTwoLines(lines) ==
  IF Len(lines) < 2 THEN lines ELSE << lines[Len(lines) - 1], lines[Len(lines)] >>

ResultOf(i) == IF i \in FoundAtProbe THEN seen[i].text ELSE reply[i]

\* the text assembled by "\n".join(results), line 738 or line 803
Assembled == IF chunk_data = <<>> THEN ret.translated ELSE final_text

\* C10: on success the assembled text is the results of the chunks 0 ..
\* total-1 in index order, one per index, whatever the completion order and
\* the mix of artifacts found and chunks translated.
C10_AssembledInIndexOrder ==
  ReturnedSuccess =>
    Assembled = JoinFrom([i \in Indices |-> ResultOf(i)], 0, total)

\* C10 witness: a successful run in which a later chunk completed before an
\* earlier one, with different texts, and one chunk came from the store.
C10_Witness ==
  /\ ReturnedSuccess
  /\ FoundAtProbe # {}
  /\ Len(yielded) >= 2
  /\ yielded[1] > yielded[2]
  /\ reply[yielded[1]] # reply[yielded[2]]

\* C11: the (completed, total) values passed to on_progress during one run are
\* strictly increasing in completed, never exceed total, count the chunks
\* found by the probe as well as the translated ones (the k-th call of a run
\* that translates reports the number found by the probe plus k), and the
\* last value of a successful run is (total, total)
C11_ProgressMonotone ==
  /\ \A k \in 1 .. Len(progress) :
       /\ progress[k][2] = total
       /\ progress[k][1] <= total
       /\ k > 1 => progress[k - 1][1] < progress[k][1]
       /\ chunk_data # <<>> => progress[k][1] = Cardinality(FoundAtProbe) + k
  /\ ReturnedSuccess =>
       /\ progress # <<>>
       /\ progress[Len(progress)] = <<total, total>>

\* a successful run that found an artifact and translated two chunks
C11_Witness ==
  /\ ReturnedSuccess
  /\ FoundAtProbe # {}
  /\ Len(progress) >= 2

\* C12: within one run each chunk index is handed to the executor at most
\* once and its artifact is opened for writing at most once, so at most one
\* task ever writes an index
C12_SingleWriterPerIndex ==
  /\ \A i \in Indices : writes[i] <= 1
  /\ \A k, m \in 1 .. Len(chunk_data) :
       chunk_data[k].index = chunk_data[m].index => k = m
  /\ \A i \in Indices : task[i] = "writing" => writes[i] = 1

\* two workers are writing two artifacts at the same time, after the write
\* of a third task has failed
C12_Witness ==
  /\ Cardinality({i \in Indices : task[i] = "writing"}) = 2
  /\ \E i \in Indices : task[i] = "raised" /\ writes[i] = 1

\* ------------------------------------------------------------ translate_text
\* translate_by_segments at rest, while translate_text is looked at alone
TSIdle ==
  /\ max_parallel = 1
  /\ time_chunks = [i \in Indices |-> ChunkLines(i, 1)]
  /\ reply = [i \in Indices |-> <<LineA>>]
  /\ TSStart

LowerOf ==
  "A" :> "a" @@ "B" :> "b" @@ "C" :> "c" @@ "D" :> "d" @@ "E" :> "e" @@
  "F" :> "f" @@ "G" :> "g" @@ "H" :> "h" @@ "I" :> "i" @@ "J" :> "j" @@
  "K" :> "k" @@ "L" :> "l" @@ "M" :> "m" @@ "N" :> "n" @@ "O" :> "o" @@
  "P" :> "p" @@ "Q" :> "q" @@ "R" :> "r" @@ "S" :> "s" @@ "T" :> "t" @@
  "U" :> "u" @@ "V" :> "v" @@ "W" :> "w" @@ "X" :> "x" @@ "Y" :> "y" @@
  "Z" :> "z"

\* str.lower()
Lower(str) ==
  [k \in 1 .. Len(str) |-> IF str[k] \in DOMAIN LowerOf THEN LowerOf[str[k]]
                                                        ELSE str[k]]

\* str.startswith(prefix)
StartsWith(str, prefix) ==
  Len(prefix) <= Len(str) /\ SubSeq(str, 1, Len(prefix)) = prefix

\* "localhost:11434" in base_url (translator.py line 461, runner.py line 74)
IsOllama(url) == Contains(OllamaHostPort, url)

\* a test that takes only the empty string for blank
IsEmptyString(t) == t = <<>>

\* not text.strip() (line 454)
IsBlank(t) == Strip(t) = <<>>

\* check_ollama_status: GET /api/tags of the local server
check_ollama_status(url) ==
  IF server.up
    THEN [available |-> TRUE, models |-> server.models]
    ELSE [available |-> FALSE, models |-> {}, error |-> ServerError]

\* model.split(":")[0]
ModelBase(m) ==
  IF \E k \in 1 .. Len(m) : m[k] = ":"
    THEN LET k == CHOOSE j \in 1 .. Len(m) :
                    m[j] = ":" /\ \A h \in 1 .. (j - 1) : m[h] # ":"
         IN  SubSeq(m, 1, k - 1)
    ELSE m

\* check_model_loaded: some model of the server starts with the base name
check_model_loaded(m, url) ==
  LET status == check_ollama_status(url)
  IN  IF ~status.available
        THEN [loaded |-> FALSE, error |-> status.error]
        ELSE IF \E available_model \in status.models :
                  StartsWith(available_model, ModelBase(m))
               THEN [loaded |-> TRUE]
               ELSE [loaded |-> FALSE, error |-> <<"no model", m>>]

\* a local family that keeps the empty credential
KeyKept(k) == k

\* api_key or "ollama" (line 470)
KeyOrPlaceholder(k) == IF k = "" THEN "ollama" ELSE k

StrTimeout ==
  << "t", "i", "m", "e", "o", "u", "t" >>
StrConnection ==
  << "c", "o", "n", "n", "e", "c", "t", "i", "o", "n" >>

\* "timeout" in str(e).lower() or "connection" in str(e).lower() (line 533)
Retryable(msg) ==
  Contains(StrTimeout, Lower(msg)) \/ Contains(StrConnection, Lower(msg))

\* the failure dict of lines 538-541
RetryFailure(n, err) == [success |-> FALSE, error |-> <<"retries", n, err>>]

\* the calls: translate_text called directly, or by a job of run_dubbing that
\* begins at step 0 with the same configuration
InitTT ==
  /\ TSIdle
  /\ CKIdle
  /\ PPIdle
  /\ MoreIdle
  /\ tt_text \in Texts
  /\ api_key \in ApiKeys
  /\ base_url \in BaseUrls
  /\ model \in {ModelG1, ModelG2}
  /\ max_retries \in 0 .. MaxRetries
  /\ server \in Servers
  /\ content \in Contents
  /\ tt_pc \in {"step0", "call"}
  /\ client_key = ""
  /\ attempt = 0
  /\ last_error = NoText
  /\ tt_ret = NoDict
  /\ calls = 0
  /\ preflights = 0
  /\ raised = <<>>
  /\ step0 = "none"

tt_inputs == << tt_text, api_key, base_url, model, max_retries, server, content >>

\* run_dubbing step 0 (runner.py lines 73-85): for the local family the
\* server and the model are checked, and a failed check raises, which ends
\* the job before anything is translated
Step0 ==
  /\ tt_pc = "step0"
  /\ LET ok == IF IsOllama(base_url)
                 THEN /\ check_ollama_status(base_url).available
                      /\ check_model_loaded(model, base_url).loaded
                 ELSE TRUE
     IN  /\ step0' = IF ok THEN "passed" ELSE "failed"
         /\ tt_pc' = IF ok THEN "call" ELSE "job_error"
  /\ UNCHANGED << notTT, tt_inputs, client_key, attempt, last_error, tt_ret,
                  calls, preflights, raised >>

\* translate_text is entered: lines 454-458
Enter ==
  /\ tt_pc = "call"
  /\ IF IsBlank(tt_text)
       THEN /\ tt_ret' = [success |-> TRUE, translated |-> <<>>]
            /\ tt_pc' = "returned"
       ELSE /\ tt_pc' = "family"
            /\ UNCHANGED tt_ret
  /\ UNCHANGED << notTT, tt_inputs, client_key, attempt, last_error, calls,
                  preflights, raised, step0 >>

\* lines 460-477: the family of the endpoint, the pre-flight check of the
\* local family, the credential
PreFlight ==
  /\ tt_pc = "family"
  /\ IF IsOllama(base_url)
       THEN /\ preflights' = preflights + 1
            /\ IF ~check_ollama_status(base_url).available
                 THEN /\ tt_ret' = [success |-> FALSE,
                                   error |-> check_ollama_status(base_url).error]
                      /\ tt_pc' = "returned"
                      /\ UNCHANGED client_key
                 ELSE /\ client_key' = KeyOrPlaceholder(api_key)
                      /\ tt_pc' = "loop"
                      /\ UNCHANGED tt_ret
       ELSE /\ UNCHANGED preflights
            /\ IF api_key = ""
                 THEN /\ tt_ret' = [success |-> FALSE, error |-> MissingKeyError]
                      /\ tt_pc' = "returned"
                      /\ UNCHANGED client_key
                 ELSE /\ client_key' = api_key
                      /\ tt_pc' = "loop"
                      /\ UNCHANGED tt_ret
  /\ UNCHANGED << notTT, tt_inputs, attempt, last_error, calls, raised, step0 >>

\* the local server answers only for a model it has
CanAnswer == IsOllama(base_url) => model \in server.models

\* one pass of the loop of line 479 in which the call returns (lines 481-524)
CallReturns ==
  /\ tt_pc = "loop"
  /\ CanAnswer
  /\ calls' = calls + 1
  /\ tt_ret' = [success |-> TRUE, translated |-> Strip(content)]
  /\ tt_pc' = "returned"
  /\ UNCHANGED << notTT, tt_inputs, client_key, attempt, last_error,
                  preflights, raised, step0 >>

\* one pass of the loop in which the call raises e with str(e) = msg (lines
\* 526-536); when the loop ends, by break or with its last pass, the failure
\* is returned (lines 538-541)
CallRaises(msg) ==
  /\ tt_pc = "loop"
  /\ calls' = calls + 1
  /\ last_error' = msg
  /\ raised' = Append(raised, msg)
  /\ IF Retryable(msg) /\ attempt < max_retries
       THEN /\ attempt' = attempt + 1
            /\ UNCHANGED << tt_pc, tt_ret >>
       ELSE /\ tt_ret' = RetryFailure(max_retries, msg)
            /\ tt_pc' = "returned"
            /\ UNCHANGED attempt
  /\ UNCHANGED << notTT, tt_inputs, client_key, preflights, step0 >>

NextTT ==
  \/ Step0
  \/ Enter
  \/ PreFlight
  \/ CallReturns
  \/ \E msg \in ErrorMessages : CallRaises(msg)

SpecTT == InitTT /\ [][NextTT]_vars

\* ---------------------------------------------------- claims: translate_text
TTReturned == tt_pc = "returned"

\* the text is empty or made of whitespace only
WhitespaceOnly(t) == \A k \in 1 .. Len(t) : t[k] \in {" ", "\t", "\n", "\r"}

\* the errors that are a timeout or a connection failure: the client
\* library's timeout, its connection error, and a gateway's timeout
IndicatesTimeoutOrConnection(msg) ==
  msg \in {MsgTimedOut, MsgConnection, MsgGatewayTimeout}

TimedOut(msg) == msg \in {MsgTimedOut, MsgGatewayTimeout}

\* C13: translate_text makes at most max_retries + 1 calls; every call but
\* the first follows an error that is a timeout or a connection failure; a
\* call that succeeds is the last one and success is returned; a first error
\* of another kind leaves exactly one call; and when every attempt times out
\* failure is returned after max_retries + 1 calls
C13_RetriesOnTimeoutOrConnection ==
  /\ calls <= max_retries + 1
  /\ \A k \in 1 .. Len(raised) :
       k < calls => IndicatesTimeoutOrConnection(raised[k])
  /\ calls > Len(raised) =>
       /\ TTReturned
       /\ tt_ret.success
       /\ calls = Len(raised) + 1
  /\ (raised # <<>> /\ ~IndicatesTimeoutOrConnection(raised[1])) => calls = 1
  /\ (/\ TTReturned
      /\ raised # <<>>
      /\ calls = Len(raised)
      /\ \A k \in 1 .. Len(raised) : TimedOut(raised[k]))
       => (calls = max_retries + 1 /\ ~tt_ret.success)

\* C13 with the errors classified as line 533 classifies them, by the
\* substrings "timeout" and "connection" of the lowered message: the calls
\* are at most max_retries + 1, every call but the first follows such an
\* error, and a run of such errors ends in failure after max_retries + 1 calls
C13_RetriesBySubstring ==
  /\ calls <= max_retries + 1
  /\ \A k \in 1 .. Len(raised) : k < calls => Retryable(raised[k])
  /\ (raised # <<>> /\ ~Retryable(raised[1])) => calls = 1
  /\ (/\ TTReturned
      /\ raised # <<>>
      /\ calls = Len(raised)
      /\ \A k \in 1 .. Len(raised) : Retryable(raised[k]))
       => (calls = max_retries + 1 /\ ~tt_ret.success)

\* every attempt of a call with retries raised the client library's timeout
C13_TimeoutsOnly ==
  /\ TTReturned
  /\ max_retries = MaxRetries
  /\ raised # <<>>
  /\ calls = Len(raised)
  /\ \A k \in 1 .. Len(raised) : raised[k] = MsgTimedOut

\* C14: translate_text called with an empty or whitespace-only text returns
\* success with the empty text, and has made no pre-flight check and no
\* translation call, whatever the endpoint and the credential
C14_BlankTextShortCircuits ==
  (WhitespaceOnly(tt_text) /\ tt_pc # "step0") =>
    /\ calls = 0
    /\ preflights = 0
    /\ tt_pc \in {"call", "job_error", "returned"}
    /\ TTReturned => tt_ret = [success |-> TRUE, translated |-> <<>>]

\* a whitespace-only text was handed in with a remote endpoint and no
\* credential, and the call has returned
C14_Witness ==
  /\ TTReturned
  /\ tt_text = << " ", "\n" >>
  /\ base_url = UrlRemote
  /\ api_key = ""

\* C15: the family is decided by the URL alone; with a text to translate and
\* no credential, a call on a remote endpoint returns the missing-credential
\* failure without any translation call, and a call on a local endpoint goes
\* on to the translation call with the placeholder as its credential
C15_FamilyByUrl ==
  (~WhitespaceOnly(tt_text) /\ api_key = "") =>
    /\ (~IsOllama(base_url) /\ TTReturned) =>
         /\ tt_ret = [success |-> FALSE, error |-> MissingKeyError]
         /\ calls = 0
         /\ preflights = 0
    /\ (IsOllama(base_url) /\ (tt_pc = "loop" \/ calls > 0)) =>
         client_key = "ollama"
    /\ (IsOllama(base_url) /\ server.up /\ TTReturned) => calls >= 1

\* a call on the local endpoint without credential has returned a translation
C15_Witness ==
  /\ TTReturned
  /\ IsOllama(base_url)
  /\ api_key = ""
  /\ calls = 1
  /\ tt_ret.success

\* a call on a remote endpoint without credential has returned
C15_WitnessRemote ==
  /\ TTReturned
  /\ ~WhitespaceOnly(tt_text)
  /\ base_url = UrlRemote
  /\ api_key = ""

\* C16: for the local family a translation call is made only when the server
\* is up and the requested model is one of its models
C16_PreflightChecksModel ==
  (IsOllama(base_url) /\ calls > 0) => (server.up /\ model \in server.models)

\* C16 for a job of run_dubbing, whose step 0 has checked the model
C16_Step0ChecksModel ==
  (IsOllama(base_url) /\ step0 = "passed" /\ calls > 0) =>
    (server.up /\ model \in server.models)

\* C16, the liveness half: for the local family a translation call is made
\* only after translate_text's own check found the server up
C16_PreflightChecksLiveness ==
  (IsOllama(base_url) /\ calls > 0) => (server.up /\ preflights = 1)

\* ---------------------------------------------------- split_segments_by_time
DigitOf ==
  "0" :> 0 @@ "1" :> 1 @@ "2" :> 2 @@ "3" :> 3 @@ "4" :> 4 @@
  "5" :> 5 @@ "6" :> 6 @@ "7" :> 7 @@ "8" :> 8 @@ "9" :> 9

\* re.match(r"(\d{2}):(\d{2}):(\d{2})\.(\d{3})", time_str)
TimeMatches(str) ==
  /\ Len(str) >= 12
  /\ \A k \in {1, 2, 4, 5, 7, 8, 10, 11, 12} : str[k] \in DOMAIN DigitOf
  /\ str[3] = ":"
  /\ str[6] = ":"
  /\ str[9] = "."

\* _time_to_seconds, in milliseconds; 0.0 for a string that does not match
time_to_seconds(str) ==
  IF TimeMatches(str)
    THEN LET d == [k \in 1 .. 12 |-> IF str[k] \in DOMAIN DigitOf
                                       THEN DigitOf[str[k]] ELSE 0]
         IN  ((10 * d[1] + d[2]) * 3600 + (10 * d[4] + d[5]) * 60
               + (10 * d[7] + d[8])) * 1000
             + 100 * d[10] + 10 * d[11] + d[12]
    ELSE 0

\* the characters that end a sentence: . ! ? and the ideographic full stop,
\* the fullwidth ! and ?, and the ellipsis, named by their code points
SentenceEnds == {".", "!", "?", "U+3002", "U+FF01", "U+FF1F", "U+2026"}

\* _is_sentence_end
is_sentence_end(str) ==
  IF str = <<>> THEN FALSE
  ELSE LET stripped == RStrip(str)
       IN  stripped # <<>> /\ stripped[Len(stripped)] \in SentenceEnds

\* a hard limit that looks at the chunk without the segment to come
HardExceededBeforeAdding(chars, seg_chars) ==
  current_chunk # <<>> /\ chars > hard_limit

\* hard_exceeded (line 395)
HardExceeded(chars, seg_chars) ==
  current_chunk # <<>> /\ (chars + seg_chars) > hard_limit

\* the pairs of times of TimeStrings, in milliseconds, whose difference in
\* double arithmetic falls below a whole number of seconds that the exact
\* difference reaches: 64.002 - 4.002 is 59.99999999999999
RoundsBelow == { << 64002, 4002 >> }

\* (a - b) >= secs for the floats a and b, given in milliseconds
FloatDiffAtLeast(a, b, secs) ==
  IF << a, b >> \in RoundsBelow THEN a - b > secs * 1000
                                ELSE a - b >= secs * 1000

\* time_exceeded (line 394), the times in milliseconds
TimeExceeded(seg_start) ==
  /\ current_chunk # <<>>
  /\ FloatDiffAtLeast(seg_start, chunk_start_time, chunk_duration)

\* soft_exceeded (lines 398-402)
SoftExceeded ==
  /\ current_chunk # <<>>
  /\ current_chars >= max_chars
  /\ is_sentence_end(current_chunk[Len(current_chunk)].text)

\* a return that forgets the chunk still being filled
ChunksWithoutLast(done, current) == done

\* lines 414-418: the last chunk is added if it holds a segment
ChunksWithLast(done, current) ==
  IF current # <<>> THEN Append(done, current) ELSE done

\* the calls of split_segments_by_time
InitCK ==
  /\ TSIdle
  /\ TTIdle
  /\ PPIdle
  /\ MoreIdle
  /\ segments \in ListsUpTo(Segments, MaxSegs)
  /\ chunk_duration \in Durations
  /\ max_chars \in SoftLimits
  /\ hard_limit \in HardLimits
  /\ ck_pc = "loop"
  /\ seg_idx = 1
  /\ chunks = <<>>
  /\ current_chunk = <<>>
  /\ chunk_start_time = 0
  /\ current_chars = 0
  /\ ck_last = NoDict

ck_inputs == << segments, chunk_duration, max_chars, hard_limit >>

\* one pass of the loop of lines 386-412
SplitStep ==
  /\ ck_pc = "loop"
  /\ seg_idx <= Len(segments)
  /\ LET seg == segments[seg_idx]
         seg_start == time_to_seconds(seg.start)
         seg_chars == Len(seg.text)
         split == \/ TimeExceeded(seg_start)
                  \/ HardExceeded(current_chars, seg_chars)
                  \/ SoftExceeded
         chunk == IF split THEN << seg >> ELSE Append(current_chunk, seg)
         start == IF split THEN seg_start ELSE chunk_start_time
     IN  /\ chunks' = IF split THEN Append(chunks, current_chunk) ELSE chunks
         /\ current_chunk' = chunk
         /\ current_chars' = (IF split THEN 0 ELSE current_chars) + seg_chars
         /\ chunk_start_time' = IF Len(chunk) = 1 /\ start = 0 THEN seg_start
                                                               ELSE start
         /\ ck_last' = [chunk |-> current_chunk, seg |-> seg, split |-> split]
  /\ seg_idx' = seg_idx + 1
  /\ UNCHANGED << notCK, ck_inputs, ck_pc >>

\* the loop has ended, or there was no segment (lines 378-379): the return
\* of lines 414-418
SplitReturn ==
  /\ ck_pc = "loop"
  /\ seg_idx > Len(segments)
  /\ chunks' = ChunksWithLast(chunks, current_chunk)
  /\ ck_pc' = "done"
  /\ UNCHANGED << notCK, ck_inputs, seg_idx, current_chunk, chunk_start_time,
                  current_chars, ck_last >>

NextCK ==
  \/ SplitStep
  \/ SplitReturn

SpecCK == InitCK /\ [][NextCK]_vars

\* ------------------------------------------- claims: split_segments_by_time
SplitReturned == ck_pc = "done"

\* the segments of the chunks, one chunk after the other
RECURSIVE Flatten(_)
Flatten(list) == IF list = <<>> THEN <<>> ELSE Head(list) \o Flatten(Tail(list))

RECURSIVE TotalChars(_)
TotalChars(chunk) ==
  IF chunk = <<>> THEN 0 ELSE Len(Head(chunk).text) + TotalChars(Tail(chunk))

\* C17: the chunks returned by split_segments_by_time, concatenated in
\* order, are the input list, for every segment list, chunk duration, soft
\* limit and hard limit; while the loop runs, the chunks made so far and the
\* chunk being filled are the segments read so far
C17_Coverage ==
  /\ ck_pc = "loop" =>
       Flatten(chunks) \o current_chunk = SubSeq(segments, 1, seg_idx - 1)
  /\ SplitReturned => Flatten(chunks) = segments

\* a list of MaxSegs segments was split into more than one chunk
C17_Witness ==
  /\ SplitReturned
  /\ Len(segments) = MaxSegs
  /\ Len(chunks) >= 2
  /\ \E k \in 1 .. Len(chunks) : Len(chunks[k]) >= 2

LastElapsedExceeds ==
  time_to_seconds(ck_last.seg.start) - time_to_seconds(ck_last.chunk[1].start)
    >= chunk_duration * 1000

LastHardExceeds ==
  TotalChars(ck_last.chunk) + Len(ck_last.seg.text) > hard_limit

LastSoftExceeds ==
  /\ TotalChars(ck_last.chunk) >= max_chars
  /\ is_sentence_end(ck_last.chunk[Len(ck_last.chunk)].text)

\* C26: a pass of the loop starts a new chunk before appending the segment
\* exactly when the chunk is non-empty and (a) the segment starts at least
\* chunk_duration seconds after the chunk's first segment, or (b) appending
\* it would take the chunk's characters over hard_limit, or (c) the chunk has
\* at least max_chars characters and its last segment ends a sentence
C26_SplitExactlyWhen ==
  ck_last # NoDict =>
    (ck_last.split <=>
       /\ ck_last.chunk # <<>>
       /\ LastElapsedExceeds \/ LastHardExceeds \/ LastSoftExceeds)

\* C26 with (a) as the code computes it, in double arithmetic on the seconds
\* of the two start times
C26_SplitExactlyWhenInFloats ==
  ck_last # NoDict =>
    (ck_last.split <=>
       /\ ck_last.chunk # <<>>
       /\ \/ FloatDiffAtLeast(time_to_seconds(ck_last.seg.start),
                               time_to_seconds(ck_last.chunk[1].start),
                               chunk_duration)
          \/ LastHardExceeds
          \/ LastSoftExceeds)

\* a chunk at the soft limit whose last segment ends no sentence took one
\* more segment
C26_GrowsPastSoftLimit ==
  /\ ck_last # NoDict
  /\ ck_last.chunk # <<>>
  /\ TotalChars(ck_last.chunk) >= max_chars
  /\ ~ck_last.split

\* ------------------------------------------------------- preprocess_segments
\* text[len(prev_text):].strip() (line 135)
AfterPrefix(str, prev) == Strip(SubSeq(str, Len(prev) + 1, Len(str)))

\* text.replace(prev_text, "", 1): the first occurrence is taken out
ReplaceFirst(str, sub) ==
  IF sub = <<>> \/ ~Contains(sub, str) THEN str
  ELSE LET k == CHOOSE j \in 0 .. (Len(str) - Len(sub)) :
                  /\ SubSeq(str, j + 1, j + Len(sub)) = sub
                  /\ \A h \in 0 .. (j - 1) : SubSeq(str, h + 1, h + Len(sub)) # sub
       IN  SubSeq(str, 1, k) \o SubSeq(str, k + Len(sub) + 1, Len(str))

\* the text of line 125 after lines 128-137: the part after a leading
\* prev_text; <<>> where the code goes on to the next segment
AfterStartsWith(str, prev_text) ==
  IF prev_text # <<>> /\ StartsWith(str, prev_text)
    THEN IF str = prev_text THEN <<>> ELSE AfterPrefix(str, prev_text)
    ELSE str

\* the text after lines 139-144: a prev_text inside it is taken out
AfterContained(str, prev_text) ==
  IF prev_text # <<>> /\ Contains(prev_text, str)
    THEN Strip(ReplaceFirst(str, prev_text))
    ELSE str

\* the loop of lines 124-150 from segment k on
RECURSIVE DedupLoop(_, _, _, _)
DedupLoop(segs, k, cleaned, prev_text) ==
  IF k > Len(segs) THEN cleaned
  ELSE LET seg == segs[k]
           stripped == Strip(seg.text)
           first == AfterStartsWith(stripped, prev_text)
           second == AfterContained(first, prev_text)
       IN  IF stripped = <<>> \/ first = <<>> \/ second = <<>>
             THEN DedupLoop(segs, k + 1, cleaned, prev_text)
             ELSE DedupLoop(segs, k + 1,
                            Append(cleaned, [seg EXCEPT !.text = second]),
                            stripped)

\* buffer = {"text": "", "start": "", "end": ""}
EmptyBuffer == [text |-> <<>>, start |-> "", end |-> ""]

\* lines 159-168: the segment goes into the buffer
Buffered(buffer, seg) ==
  IF buffer.text = <<>>
    THEN [text |-> seg.text, start |-> seg.start, end |-> seg.end]
    ELSE [buffer EXCEPT !.text = buffer.text \o << " " >> \o seg.text,
                        !.end = seg.end]

\* a merge pass that flushes the buffer after every segment
FlushesEverySegment(buffer) == TRUE

\* the test of line 172
Flushes(buffer) == is_sentence_end(buffer.text) \/ Len(buffer.text) > MergeMaxLen

\* the loop of lines 156-174 from segment k on, and lines 176-178
RECURSIVE MergeLoop(_, _, _, _)
MergeLoop(cleaned, k, merged, buffer) ==
  IF k > Len(cleaned)
    THEN IF buffer.text # <<>> THEN Append(merged, buffer) ELSE merged
    ELSE LET filled == Buffered(buffer, cleaned[k])
         IN  IF Flushes(filled)
               THEN MergeLoop(cleaned, k + 1, Append(merged, filled), EmptyBuffer)
               ELSE MergeLoop(cleaned, k + 1, merged, filled)

\* the list cleaned after the first pass
Dedup(segs) == DedupLoop(segs, 1, <<>>, <<>>)

preprocess_segments(segs) ==
  IF segs = <<>> THEN <<>> ELSE MergeLoop(Dedup(segs), 1, <<>>, EmptyBuffer)

\* the subtitle lists handed to preprocess_segments
InitPP ==
  /\ TSIdle
  /\ TTIdle
  /\ CKIdle
  /\ MoreIdle
  /\ pp_segments \in SubLists
  /\ pp_pc = "start"
  /\ once = <<>>
  /\ twice = <<>>

\* preprocess_segments is applied to the subtitle list
Preprocess ==
  /\ pp_pc = "start"
  /\ once' = preprocess_segments(pp_segments)
  /\ pp_pc' = "once"
  /\ UNCHANGED << notPP, pp_segments, twice >>

\* preprocess_segments is applied to what it returned
PreprocessAgain ==
  /\ pp_pc = "once"
  /\ twice' = preprocess_segments(once)
  /\ pp_pc' = "twice"
  /\ UNCHANGED << notPP, pp_segments, once >>

NextPP ==
  \/ Preprocess
  \/ PreprocessAgain

SpecPP == InitPP /\ [][NextPP]_vars

\* ---------------------------------------------- claims: preprocess_segments
TextsOf(segs) == [k \in 1 .. Len(segs) |-> segs[k].text]

\* C19: preprocess_segments applied to its own output returns that output
C19_Idempotent == pp_pc = "twice" => twice = once

\* C19 for the texts alone, whatever the start and end fields
C19_IdempotentTexts == pp_pc = "twice" => TextsOf(twice) = TextsOf(once)

HelloExample == TextsOf(pp_segments) = << Hello, HelloWorld, WorldBye >>

World ==
  << "w", "o", "r", "l", "d" >>
HelloWorldWorld ==
  << "H", "e", "l", "l", "o", " ", "w", "o", "r", "l", "d", " ", "w", "o",
  "r", "l", "d", "." >>
Bye ==
  << "B", "y", "e", "." >>
HelloWorldWorldBye ==
  << "H", "e", "l", "l", "o", " ", "w", "o", "r", "l", "d", " ", "w", "o",
  "r", "l", "d", ".", " ", "B", "y", "e", "." >>

\* C20 as stated: for the texts "Hello", "Hello world", "world. Bye." the
\* second segment loses its leading "Hello" and the merge pass yields the two
\* units "Hello world world." and "Bye."
C20_HelloYieldsTwoUnits ==
  (HelloExample /\ pp_pc # "start") =>
    /\ TextsOf(Dedup(pp_segments)) = << Hello, World, WorldBye >>
    /\ TextsOf(once) = << HelloWorldWorld, Bye >>

\* C20: for the texts "Hello", "Hello world", "world. Bye." the second
\* segment loses its leading "Hello" and the merge pass yields the one unit
\* "Hello world world. Bye.", from the start of the first segment to the end
\* of the third
C20_HelloYieldsOneUnit ==
  (HelloExample /\ pp_pc # "start") =>
    /\ TextsOf(Dedup(pp_segments)) = << Hello, World, WorldBye >>
    /\ once = << [text |-> HelloWorldWorldBye, start |-> 1, end |-> 4] >>

\* preprocess_segments has returned for the three texts
C20_Witness == HelloExample /\ pp_pc = "once"

\* ---------------------------------------------------- remove_duplicate_lines
\* the texts handed to remove_duplicate_lines
InitRDL ==
  /\ TSIdle
  /\ TTIdle
  /\ CKIdle
  /\ PPIdle
  /\ DDIdle
  /\ RDIdle
  /\ rdl_text \in DupTexts
  /\ rdl_pc = "start"
  /\ rdl_out = EmptyText

\* remove_duplicate_lines is applied to the text
RemoveDuplicates ==
  /\ rdl_pc = "start"
  /\ rdl_out' = remove_duplicate_lines(rdl_text)
  /\ rdl_pc' = "done"
  /\ UNCHANGED << notRDL, rdl_text >>

NextRDL == RemoveDuplicates

SpecRDL == InitRDL /\ [][NextRDL]_vars

\* ------------------------------------------- claims: remove_duplicate_lines
NonBlank(line) == Strip(line) # <<>>

IsBlankLine(line) == Strip(line) = <<>>

CatExample == rdl_text = << CatSat, CatSat, CatMat >>

\* C21 as stated: the three lines "The cat sat.", "The cat sat.", "The cat
\* sat on the mat." are repaired to the single line "The cat sat on the mat."
C21_CatYieldsOneLine ==
  (CatExample /\ rdl_pc = "done") => rdl_out = << CatMat >>

\* C21: the three lines "The cat sat.", "The cat sat.", "The cat sat on the
\* mat." are repaired to the two lines "The cat sat." and "The cat sat on the
\* mat.": the repeated line is dropped, and the third line stays, since the
\* first, with its full stop, is no substring of it
C21_CatYieldsTwoLines ==
  (CatExample /\ rdl_pc = "done") => rdl_out = << CatSat, CatMat >>

\* remove_duplicate_lines has returned for the three lines
C21_Witness == CatExample /\ rdl_pc = "done"

\* a is b with some of its elements left out
RECURSIVE IsSubsequence(_, _)
IsSubsequence(a, b) ==
  IF a = <<>> THEN TRUE
  ELSE IF b = <<>> THEN FALSE
  ELSE IF Head(a) = Head(b) THEN IsSubsequence(Tail(a), Tail(b))
  ELSE IsSubsequence(a, Tail(b))

\* what remove_duplicate_lines returns for the first k lines of the text
RepairedPrefix(k) == remove_duplicate_lines(SubSeq(rdl_text, 1, k))

\* C27: the output lines are a subsequence of the input lines; the blank
\* lines of the input are all in the output; a blank line resets the
\* comparison, so that it and a non-blank line right after it are appended to
\* what the lines before gave; and no non-blank output line equals, after
\* trimming, the non-blank output line right before it
C27_RepairInvariants ==
  rdl_pc = "done" =>
    /\ IsSubsequence(rdl_out, rdl_text)
    /\ SelectSeq(rdl_out, IsBlankLine) = SelectSeq(rdl_text, IsBlankLine)
    /\ \A k \in 1 .. Len(rdl_text) :
         IsBlankLine(rdl_text[k]) =>
           /\ RepairedPrefix(k) = IF k = 1 THEN << rdl_text[k] >>
                                  ELSE Append(RepairedPrefix(k - 1), rdl_text[k])
           /\ (k < Len(rdl_text) /\ NonBlank(rdl_text[k + 1])) =>
                RepairedPrefix(k + 1) = Append(RepairedPrefix(k), rdl_text[k + 1])
    /\ \A j \in 2 .. Len(rdl_out) :
         (NonBlank(rdl_out[j]) /\ NonBlank(rdl_out[j - 1])) =>
           Strip(rdl_out[j]) # Strip(rdl_out[j - 1])

\* a text whose line is repeated right away, and again after a blank line:
\* the first repetition is gone, the second is kept
C27_Witness ==
  /\ rdl_pc = "done"
  /\ rdl_text = << LineA, << " ", "a" >>, << " " >>, LineA >>
  /\ rdl_out = << LineA, << " " >>, LineA >>

\* --------------------- the first pass of preprocess_segments, step by step
\* line 130 is true and line 132 is false: line 135 cuts the text
PrefixRuleApplies(str, prev_text) ==
  prev_text # <<>> /\ StartsWith(str, prev_text) /\ str # prev_text

\* line 140 is true: line 142 cuts the text
SubstringRuleApplies(str, prev_text) ==
  prev_text # <<>> /\ Contains(prev_text, str)

\* the list handed to preprocess_segments (it is not empty: line 118)
InitDD ==
  /\ TSIdle
  /\ TTIdle
  /\ CKIdle
  /\ PPIdle
  /\ RDLIdle
  /\ RDIdle
  /\ dd_segments \in DedupLists \ {<<>>}
  /\ dd_pc = "loop"
  /\ dd_k = 1
  /\ dd_cleaned = <<>>
  /\ dd_prev_text = <<>>
  /\ dd_last = NoDict

\* one pass of the loop of lines 125-151
DedupStep ==
  /\ dd_pc = "loop"
  /\ dd_k <= Len(dd_segments)
  /\ LET seg == dd_segments[dd_k]
         stripped == Strip(seg.text)
         first == AfterStartsWith(stripped, dd_prev_text)
         second == AfterContained(first, dd_prev_text)
         kept == stripped # <<>> /\ first # <<>> /\ second # <<>>
     IN  /\ dd_cleaned' = IF kept
                            THEN Append(dd_cleaned, [seg EXCEPT !.text = second])
                            ELSE dd_cleaned
         /\ dd_prev_text' = IF kept THEN stripped ELSE dd_prev_text
         /\ dd_last' =
              [text |-> seg.text,
               stripped |-> stripped,
               prefix |-> stripped # <<>>
                          /\ PrefixRuleApplies(stripped, dd_prev_text),
               substring |-> stripped # <<>> /\ first # <<>>
                             /\ SubstringRuleApplies(first, dd_prev_text),
               out |-> second,
               kept |-> kept]
  /\ dd_k' = dd_k + 1
  /\ UNCHANGED << notDD, dd_segments, dd_pc >>

\* the loop is over
DedupReturn ==
  /\ dd_pc = "loop"
  /\ dd_k > Len(dd_segments)
  /\ dd_pc' = "done"
  /\ UNCHANGED << notDD, dd_segments, dd_k, dd_cleaned, dd_prev_text, dd_last >>

NextDD ==
  \/ DedupStep
  \/ DedupReturn

SpecDD == InitDD /\ [][NextDD]_vars

\* the last pass of the loop took a segment with a text
TookSegment == dd_last # NoDict /\ dd_last.stripped # <<>>

\* C28: after a pass of the loop over a segment with a text, prev_text is
\* that segment's own text as it came (stripped of its outer blanks, as
\* line 126 takes it), whether the segment was kept or dropped
C28_LookbackIsPreviousSegment ==
  TookSegment => dd_prev_text = dd_last.stripped

\* a segment with a text of its own is dropped and prev_text stays behind
C28_DroppedBehind ==
  /\ TookSegment
  /\ ~dd_last.kept
  /\ dd_prev_text # dd_last.stripped

\* C29: the two rules are alternatives: in one pass of the loop at most
\* one of the prefix rule and the substring rule changes the text
C29_AtMostOneRule ==
  dd_last # NoDict => ~(dd_last.prefix /\ dd_last.substring)

\* both rules changed the text of a segment that was kept
C29_BothRules ==
  /\ dd_last # NoDict
  /\ dd_last.prefix
  /\ dd_last.substring
  /\ dd_last.kept

\* ----------------------------------------------------------------- run_dubbing
\* lines 315-323 of check_existing_output: the stage to resume from
ResumeFromKoreanFirst(has_audio, has_korean, has_original) ==
  IF has_korean THEN "tts"
  ELSE IF has_audio /\ has_korean THEN "done"
  ELSE IF has_original THEN "translate"
  ELSE "start"

ResumeFrom(has_audio, has_korean, has_original) ==
  IF has_audio /\ has_korean THEN "done"
  ELSE IF has_korean THEN "tts"
  ELSE IF has_original THEN "translate"
  ELSE "start"

\* folder.glob("*.mp3") (line 308): <title>.mp3 and the <title>.mp3.partN.mp3
\* files that generate_tts writes beside it both end in .mp3
Mp3Files(fsv) ==
  (IF fsv.audio # "absent" THEN {"title"} ELSE {}) \cup fsv.parts

\* check_existing_output for the folder of the video; NoDict is None
check_existing_output(fsv) ==
  IF ~fsv.folder THEN NoDict
  ELSE LET has_audio == Mp3Files(fsv) # {}
           has_korean == fsv.korean # "absent"
           has_original == fsv.original # "absent"
       IN  [has_audio |-> has_audio,
            has_korean |-> has_korean,
            has_original |-> has_original,
            is_complete |-> has_audio /\ has_korean,
            resume_from |-> ResumeFrom(has_audio, has_korean, has_original)]

\* a run that calls the translation whatever the stage
TranslationAlways(stage) == stage # "done"

\* line 163
TranslationDue(stage) == stage \in {"start", "translate"}

\* a run that removes the chunk store when the translation has failed
WithoutStore(fsv) == [fsv EXCEPT !.chunks = "absent"]

\* the folder after line 184 raises and lines 231-236 end the run: nothing
\* is written and nothing is deleted
LeftOnError(fsv) == fsv

\* the chunk store when translate_full_text has returned a failure: a store
\* with none or some of its artifacts, or none where the text was short
StoresAfterFailure(dir) ==
  IF dir = "absent" THEN {"absent", "some"} ELSE {dir}

\* the chunk store when translate_full_text has returned a translation
StoresAfterSuccess(dir) ==
  IF dir = "absent" THEN {"absent", "all"} ELSE {"all"}

\* the except branch (lines 231-234) and the return: the call that failed
Failed(cause) == [status |-> "error", error |-> cause]

\* the first call of run_dubbing for a video that was never processed
InitRD ==
  /\ TSIdle
  /\ TTIdle
  /\ CKIdle
  /\ PPIdle
  /\ RDLIdle
  /\ DDIdle
  /\ fs = NoFolder
  /\ rd_pc = "start"
  /\ job = NewJob
  /\ existing = NoDict
  /\ resume_from = "start"
  /\ rd_segments = FALSE
  /\ rd_pieces \in 0 .. MaxPieces
  /\ rd_i = 0
  /\ rd_calls = {}
  /\ rd_probes = <<>>
  /\ rd_prev = NoDict
  /\ rd_before = NoFolder

rd_locals == << existing, resume_from, rd_segments, rd_i >>
rd_history == << rd_pieces, rd_probes, rd_prev, rd_before >>

\* lines 73-95: the Ollama check, the video id or get_video_info raises
FailsBeforeProbe ==
  /\ rd_pc = "start"
  /\ job' = Failed("before")
  /\ rd_pc' = "returned"
  /\ UNCHANGED << notRD, fs, rd_locals, rd_calls, rd_history >>

\* line 100
ProbeOutput ==
  /\ rd_pc = "start"
  /\ existing' = check_existing_output(fs)
  /\ rd_probes' =
       Append(rd_probes,
              IF existing' = NoDict
                THEN [found |-> FALSE, resume_from |-> "start", prev |-> rd_prev]
                ELSE [found |-> TRUE,
                      audio |-> fs.audio,
                      has_audio |-> existing'.has_audio,
                      has_korean |-> existing'.has_korean,
                      has_original |-> existing'.has_original,
                      resume_from |-> existing'.resume_from,
                      prev |-> rd_prev])
  /\ rd_pc' = "probed"
  /\ UNCHANGED << notRD, fs, job, resume_from, rd_segments, rd_i, rd_calls,
                  rd_pieces, rd_prev, rd_before >>

\* lines 102-113
SkipDone ==
  /\ rd_pc = "probed"
  /\ existing # NoDict
  /\ existing.resume_from = "done"
  /\ job' = [status |-> "completed", error |-> "none"]
  /\ rd_pc' = "returned"
  /\ UNCHANGED << notRD, fs, rd_locals, rd_calls, rd_history >>

\* lines 116-123
OpenFolder ==
  /\ rd_pc = "probed"
  /\ IF existing # NoDict
       THEN /\ existing.resume_from # "done"
            /\ resume_from' = existing.resume_from
            /\ fs' = fs
       ELSE /\ resume_from' = "start"
            /\ fs' = [fs EXCEPT !.folder = TRUE]
  /\ rd_pc' = "step2"
  /\ UNCHANGED << notRD, job, existing, rd_segments, rd_i, rd_calls,
                  rd_history >>

\* lines 129-138: extract_transcript returns a transcript, with or
\* without segments
ExtractSucceeds ==
  /\ rd_pc = "step2"
  /\ resume_from = "start"
  /\ rd_calls' = rd_calls \cup {"extract"}
  /\ rd_segments' \in BOOLEAN
  /\ rd_pc' = "write_original"
  /\ UNCHANGED << notRD, fs, job, existing, resume_from, rd_i, rd_history >>

\* lines 131-134: extract_transcript returns a failure or raises
ExtractFails ==
  /\ rd_pc = "step2"
  /\ resume_from = "start"
  /\ rd_calls' = rd_calls \cup {"extract"}
  /\ job' = Failed("extract")
  /\ rd_pc' = "returned"
  /\ UNCHANGED << notRD, fs, rd_locals, rd_history >>

\* lines 141-147: the transcript and the segments are saved
WriteOriginal ==
  /\ rd_pc = "write_original"
  /\ fs' = [fs EXCEPT !.original = "full",
                      !.segments = fs.segments \/ rd_segments]
  /\ rd_pc' = "step3"
  /\ UNCHANGED << notRD, job, rd_locals, rd_calls, rd_history >>

\* line 142: write_text has created the file and raises
WriteOriginalRaises ==
  /\ rd_pc = "write_original"
  /\ fs' = [fs EXCEPT !.original = "partial"]
  /\ job' = Failed("write_original")
  /\ rd_pc' = "returned"
  /\ UNCHANGED << notRD, rd_locals, rd_calls, rd_history >>

\* lines 148-160: the transcript on disk is used
UseOriginal ==
  /\ rd_pc = "step2"
  /\ resume_from # "start"
  /\ rd_segments' = fs.segments
  /\ rd_pc' = "step3"
  /\ UNCHANGED << notRD, fs, job, existing, resume_from, rd_i, rd_calls,
                  rd_history >>

\* lines 163-187: translate_full_text returns the translation
TranslateSucceeds ==
  /\ rd_pc = "step3"
  /\ TranslationDue(resume_from)
  /\ rd_calls' = rd_calls \cup {"translate"}
  /\ \E c \in StoresAfterSuccess(fs.chunks) : fs' = [fs EXCEPT !.chunks = c]
  /\ rd_pc' = "write_korean"
  /\ UNCHANGED << notRD, job, rd_locals, rd_history >>

\* lines 173-181: translate_full_text returns a failure
TranslateFails ==
  /\ rd_pc = "step3"
  /\ TranslationDue(resume_from)
  /\ rd_calls' = rd_calls \cup {"translate"}
  /\ \E c \in StoresAfterFailure(fs.chunks) : fs' = [fs EXCEPT !.chunks = c]
  /\ rd_pc' = "translate_failed"
  /\ UNCHANGED << notRD, job, rd_locals, rd_history >>

\* lines 183-184 and 231-236: the failure is raised and ends the run
RaiseTranslationFailure ==
  /\ rd_pc = "translate_failed"
  /\ fs' = LeftOnError(fs)
  /\ job' = Failed("translate")
  /\ rd_pc' = "returned"
  /\ UNCHANGED << notRD, rd_locals, rd_calls, rd_history >>

\* lines 190-192
WriteKorean ==
  /\ rd_pc = "write_korean"
  /\ fs' = [fs EXCEPT !.korean = "full"]
  /\ rd_pc' = "cleanup"
  /\ UNCHANGED << notRD, job, rd_locals, rd_calls, rd_history >>

\* line 191: write_text has created the file and raises
WriteKoreanRaises ==
  /\ rd_pc = "write_korean"
  /\ fs' = [fs EXCEPT !.korean = "partial"]
  /\ job' = Failed("write_korean")
  /\ rd_pc' = "returned"
  /\ UNCHANGED << notRD, rd_locals, rd_calls, rd_history >>

\* lines 195-198
RemoveChunks ==
  /\ rd_pc = "cleanup"
  /\ fs' = [fs EXCEPT !.chunks = "absent"]
  /\ rd_pc' = "step4"
  /\ UNCHANGED << notRD, job, rd_locals, rd_calls, rd_history >>

\* lines 199-203: the translation on disk is used
UseKorean ==
  /\ rd_pc = "step3"
  /\ ~TranslationDue(resume_from)
  /\ rd_pc' = "step4"
  /\ UNCHANGED << notRD, fs, job, rd_locals, rd_calls, rd_history >>

\* lines 214-223 and generate_tts lines 48-52: the text is blank
TTSBlank ==
  /\ rd_pc = "step4"
  /\ rd_pieces = 0
  /\ rd_calls' = rd_calls \cup {"tts"}
  /\ job' = Failed("tts")
  /\ rd_pc' = "returned"
  /\ UNCHANGED << notRD, fs, rd_locals, rd_history >>

\* generate_tts lines 57-69 and lines 225-229: the text goes in one call
TTSSingleSucceeds ==
  /\ rd_pc = "step4"
  /\ rd_pieces = 1
  /\ rd_calls' = rd_calls \cup {"tts"}
  /\ fs' = [fs EXCEPT !.audio = "full"]
  /\ job' = [status |-> "completed", error |-> "none"]
  /\ rd_pc' = "returned"
  /\ UNCHANGED << notRD, rd_locals, rd_history >>

\* generate_tts lines 61 and 104-108: the call raises; communicate.save has
\* written none or a part of <title>.mp3
TTSSingleRaises ==
  /\ rd_pc = "step4"
  /\ rd_pieces = 1
  /\ rd_calls' = rd_calls \cup {"tts"}
  /\ \E a \in {fs.audio, "partial"} : fs' = [fs EXCEPT !.audio = a]
  /\ job' = Failed("tts")
  /\ rd_pc' = "returned"
  /\ UNCHANGED << notRD, rd_locals, rd_history >>

\* generate_tts lines 70-77: the text is cut into pieces
TTSStartParts ==
  /\ rd_pc = "step4"
  /\ rd_pieces > 1
  /\ rd_calls' = rd_calls \cup {"tts"}
  /\ rd_i' = 0
  /\ rd_pc' = "tts_parts"
  /\ UNCHANGED << notRD, fs, job, existing, resume_from, rd_segments,
                  rd_history >>

\* generate_tts lines 78-85: piece rd_i is saved as <title>.mp3.partN.mp3
TTSPartSucceeds ==
  /\ rd_pc = "tts_parts"
  /\ rd_i < rd_pieces
  /\ fs' = [fs EXCEPT !.parts = fs.parts \cup {rd_i}]
  /\ rd_i' = rd_i + 1
  /\ UNCHANGED << notRD, rd_pc, job, existing, resume_from, rd_segments,
                  rd_calls, rd_history >>

\* generate_tts lines 84 and 104-108: the call for piece rd_i raises; the
\* part files of the pieces before it stay
TTSPartRaises ==
  /\ rd_pc = "tts_parts"
  /\ rd_i < rd_pieces
  /\ job' = Failed("tts")
  /\ rd_pc' = "returned"
  /\ UNCHANGED << notRD, fs, rd_locals, rd_calls, rd_history >>

\* generate_tts lines 87-102 and lines 225-229: the parts are merged into
\* <title>.mp3 and unlinked
TTSMerge ==
  /\ rd_pc = "tts_parts"
  /\ rd_i = rd_pieces
  /\ fs' = [fs EXCEPT !.audio = "full", !.parts = {}]
  /\ job' = [status |-> "completed", error |-> "none"]
  /\ rd_pc' = "returned"
  /\ UNCHANGED << notRD, rd_locals, rd_calls, rd_history >>

\* run_dubbing is called again for the same video
RunAgain ==
  /\ rd_pc = "returned"
  /\ Len(rd_probes) < MaxRuns
  /\ rd_prev' = job
  /\ rd_before' = fs
  /\ job' = NewJob
  /\ existing' = NoDict
  /\ resume_from' = "start"
  /\ rd_segments' = FALSE
  /\ rd_i' = 0
  /\ rd_calls' = {}
  /\ rd_pc' = "start"
  /\ UNCHANGED << notRD, fs, rd_pieces, rd_probes >>

NextRD ==
  \/ FailsBeforeProbe
  \/ ProbeOutput
  \/ SkipDone
  \/ OpenFolder
  \/ ExtractSucceeds
  \/ ExtractFails
  \/ WriteOriginal
  \/ WriteOriginalRaises
  \/ UseOriginal
  \/ TranslateSucceeds
  \/ TranslateFails
  \/ RaiseTranslationFailure
  \/ WriteKorean
  \/ WriteKoreanRaises
  \/ RemoveChunks
  \/ UseKorean
  \/ TTSBlank
  \/ TTSSingleSucceeds
  \/ TTSSingleRaises
  \/ TTSStartParts
  \/ TTSPartSucceeds
  \/ TTSPartRaises
  \/ TTSMerge
  \/ RunAgain

SpecRD == InitRD /\ [][NextRD]_vars

\* the probes that found the folder
FoundProbes == {k \in 1 .. Len(rd_probes) : rd_probes[k].found}

\* the probe of the run that is under way or has returned
ThisProbe == rd_probes[Len(rd_probes)]

\* the run has returned and had probed the folder
ReturnedProbed ==
  /\ rd_pc = "returned"
  /\ job.error # "before"
  /\ rd_probes # <<>>

\* C22: the stage check_existing_output returns depends on the three flags
\* only: done iff audio and translation; tts iff translation without
\* audio; translate iff original without translation; start otherwise; and
\* two probes that find the same flags return the same stage
C22_StageFromFlags ==
  \A k \in FoundProbes :
    LET p == rd_probes[k]
    IN  /\ (p.resume_from = "done") <=> (p.has_audio /\ p.has_korean)
        /\ (p.resume_from = "tts") <=> (p.has_korean /\ ~p.has_audio)
        /\ (p.resume_from = "translate") <=> (p.has_original /\ ~p.has_korean)
        /\ (p.resume_from = "start") <=> (~p.has_original /\ ~p.has_korean)
        /\ \A j \in FoundProbes :
             /\ rd_probes[j].has_audio = p.has_audio
             /\ rd_probes[j].has_korean = p.has_korean
             /\ rd_probes[j].has_original = p.has_original
             => rd_probes[j].resume_from = p.resume_from

\* two probes found the same files, and a later one found the audio too
C22_Witness ==
  /\ \E j, k \in FoundProbes :
       /\ j < k
       /\ rd_probes[j].has_audio = rd_probes[k].has_audio
       /\ rd_probes[j].has_korean = rd_probes[k].has_korean
       /\ rd_probes[j].has_original = rd_probes[k].has_original
  /\ {"tts", "done"} \subseteq {rd_probes[k].resume_from : k \in FoundProbes}

\* the stage a run resumes from when the run before failed in that call
StageOfCall(cause) ==
  IF cause = "extract" THEN "start"
  ELSE IF cause = "translate" THEN "translate"
  ELSE "tts"

\* C23: a run that ended in error in extract_transcript, translate_full_text
\* or generate_tts is followed by a run that probes that very stage
C23_ResumesAtFailedStage ==
  \A k \in 1 .. Len(rd_probes) :
    LET p == rd_probes[k]
    IN  /\ p.prev # NoDict
        /\ p.prev.status = "error"
        /\ p.prev.error \in {"extract", "translate", "tts"}
        => p.resume_from = StageOfCall(p.prev.error)

\* a run probes done only when the speech synthesis has written <title>.mp3
\* in full
C23_DoneOnlyAfterSynthesis ==
  \A k \in FoundProbes :
    rd_probes[k].resume_from = "done" => rd_probes[k].audio = "full"

\* a failed extraction or translation is attempted again by the next run
C23_ExtractionAndTranslationResume ==
  \A k \in 1 .. Len(rd_probes) :
    LET p == rd_probes[k]
    IN  /\ p.prev # NoDict
        /\ p.prev.status = "error"
        /\ p.prev.error \in {"extract", "translate"}
        => p.resume_from = StageOfCall(p.prev.error)

\* a step that ends the run in error deletes nothing
C23_ArtifactsRemain ==
  [][job'.status = "error" /\ job.status = "running"
       => /\ fs.folder => fs'.folder
          /\ fs.original = "full" => fs'.original = "full"
          /\ fs.korean = "full" => fs'.korean = "full"
          /\ fs.audio = "full" => fs'.audio = "full"
          /\ fs.segments => fs'.segments
          /\ fs.parts \subseteq fs'.parts
          /\ fs.chunks # "absent" => fs'.chunks # "absent"]_vars

\* the speech synthesis failed on a later piece and the next run probed done
C23_DoneAfterFailedSynthesis ==
  /\ rd_probes # <<>>
  /\ ThisProbe.found
  /\ ThisProbe.resume_from = "done"
  /\ ThisProbe.prev.status = "error"
  /\ ThisProbe.prev.error = "tts"
  /\ ThisProbe.audio = "absent"

C30_RunReturns ==
  /\ (pc # "done") ~> (pc = "done" /\ ret # NoDict)
  /\ [][pc # "done" /\ pc' = "done"
          => \A i \in Indices : task[i] \notin InWorker]_vars

\* a run has returned its failure; when the failure was detected another
\* call was in flight
C30_Witness ==
  /\ pc = "done"
  /\ ~ret.success
  /\ atDetect # NoDict
  /\ atDetect.inflight # {}
  /\ \A i \in Indices : task[i] \notin InWorker

====
